---------------------------- MODULE Spec2Model ----------------------------
(***************************************************************************)
(* A model of the Deye Modbus integration (custom_components/deye_modbus): *)
(* the register decoder, the span builder, the poll cycle of the           *)
(* definition coordinator (_async_update_definitions) and the write        *)
(* handlers of the number, select and time entities.                       *)
(*                                                                         *)
(* The Modbus transport and the inverter behind it are the environment:    *)
(* a read returns a word list, returns an error result, or raises; a write *)
(* returns or raises.  Python values are modelled as records with the      *)
(* fields t (type), a, b, c, s so that values of different Python types    *)
(* can be compared: an int n is (t="int", a=n), a float is the fraction    *)
(* a/b in lowest terms, a datetime.time is (a,b,c) = (hour,minute,second), *)
(* a str is s, and None is t="none".                                       *)
(***************************************************************************)
EXTENDS Integers, Sequences, FiniteSets, TLC

(***************************************************************************)
(* Python values                                                           *)
(***************************************************************************)
NoneV == [t |-> "none", a |-> 0, b |-> 0, c |-> 0, s |-> ""]

IntV(n) == [t |-> "int", a |-> n, b |-> 1, c |-> 0, s |-> ""]

TimeV(h, m, sec) == [t |-> "time", a |-> h, b |-> m, c |-> sec, s |-> ""]

StrV(str) == [t |-> "str", a |-> 0, b |-> 0, c |-> 0, s |-> str]

Abs(n) == IF n < 0 THEN -n ELSE n

RECURSIVE Gcd(_, _)
Gcd(x, y) == IF y = 0 THEN x ELSE Gcd(y, x % y)

\* A float as the fraction n/d (d # 0) in lowest terms with a positive denominator.
FloatV(n, d) ==
    LET g  == Gcd(Abs(n), Abs(d))
        sg == IF d < 0 THEN -1 ELSE 1
    IN  [t |-> "float", a |-> sg * (n \div g), b |-> Abs(d) \div g, c |-> 0, s |-> ""]

IsNumber(v) == v.t \in {"int", "float"}

(***************************************************************************)
(* Bit operations on register words: Python's & restricted to the 16 bits  *)
(* of a holding register (a negative int is taken in two's complement).    *)
(***************************************************************************)
WordBits == 16

RECURSIVE Pow2(_)
Pow2(n) == IF n = 0 THEN 1 ELSE 2 * Pow2(n - 1)

WordMod == Pow2(WordBits)

RECURSIVE AndBits(_, _, _)
AndBits(x, y, n) ==
    IF n = 0 \/ x = 0 \/ y = 0 THEN 0
    ELSE (IF x % 2 = 1 /\ y % 2 = 1 THEN 1 ELSE 0) + 2 * AndBits(x \div 2, y \div 2, n - 1)

\* x & y for a mask y that fits a register.
BitAnd(x, y) == AndBits(x % WordMod, y % WordMod, WordBits)

\* x & ~y for a register word x: the bits of x outside the mask y.
BitClear(x, y) == (x % WordMod) - BitAnd(x, y)

\* x | y for two words with no common bit set is x + y; in general x + y - (x & y).
BitOr(x, y) == (x % WordMod) + (y % WordMod) - BitAnd(x, y)

\* raw - 0x10000 if raw & 0x8000 else raw
Signed16(raw) == IF raw >= Pow2(WordBits - 1) THEN raw - WordMod ELSE raw

(***************************************************************************)
(* Definition items (definition_loader.DefinitionItem).  rule 0 stands for *)
(* rule None; scale is (kind, num, den) with kind none / int (num) /       *)
(* float (num/den) / list ([num, den]); hasMask tells "mask is not None";  *)
(* divide 0 and offset 0 stand for the falsy values None and 0; lookup is  *)
(* a function from raw keys to labels, the empty function for None or {};  *)
(* hasMin / hasMax tell whether range_min / range_max is not None.         *)
(***************************************************************************)
NoScale == [kind |-> "none", num |-> 0, den |-> 1]

IntScale(n) == [kind |-> "int", num |-> n, den |-> 1]

FloatScale(n, d) == [kind |-> "float", num |-> n, den |-> d]

ListScale(n, d) == [kind |-> "list", num |-> n, den |-> d]

NoLookup == [k \in {} |-> ""]

DefinitionItem(key, platform, registers, rule) ==
    [key |-> key, platform |-> platform, registers |-> registers, rule |-> rule,
     scale |-> NoScale, lookup |-> NoLookup, unit |-> "",
     hasMin |-> FALSE, range_min |-> 0, hasMax |-> FALSE, range_max |-> 0,
     hasMask |-> FALSE, mask |-> 0, divide |-> 0, offset |-> 0]

(***************************************************************************)
(* The register decoder, _decode_item.                                     *)
(***************************************************************************)
\* _SCALE_OVERRIDES: key -> factor.
ScaleOverrideKeys10 == {"load_power", "load_l1_power", "load_l2_power",
                        "grid_power", "grid_l1_power", "grid_l2_power"}

ScaleOverrideKeys100 == {"battery_bms_charge_current_limit",
                         "battery_bms_discharge_current_limit"}

ScaleOverrideKeys1 == {"battery_current", "grid_l1_current", "grid_l2_current",
                       "external_ct1_current", "external_ct2_current",
                       "load_l1_current", "load_l2_current", "output_l1_current",
                       "output_l2_current", "battery_bms_current"}

\* _SCALE_OVERRIDES.get(item.key, item.scale)
PipelineScale(item) ==
    IF item.key \in ScaleOverrideKeys100 THEN IntScale(100)
    ELSE IF item.key \in ScaleOverrideKeys10 THEN IntScale(10)
    ELSE IF item.key \in ScaleOverrideKeys1 THEN IntScale(1)
    ELSE item.scale

\* val * k for a number val and a scalar k = n/d (an int when isInt): int * int
\* is an int, anything with a float is a float.
MulNum(v, n, d, isInt) ==
    IF v.t = "int" /\ isInt THEN IntV(v.a * n) ELSE FloatV(v.a * n, v.b * d)

\* The scale of the signed16 rule: a list gives scale[0] / scale[1] (a float)
\* when scale[1] is truthy and scale[0] otherwise; a scalar gives itself.
Rule2Value(item, raw) ==
    LET sc == item.scale
    IN  CASE sc.kind = "none"  -> IntV(raw)
          [] sc.kind = "int"   -> IntV(raw * sc.num)
          [] sc.kind = "float" -> FloatV(raw * sc.num, sc.den)
          [] sc.kind = "list"  -> IF sc.den # 0 THEN FloatV(raw * sc.num, sc.den)
                                  ELSE IntV(raw * sc.num)

\* dt.time(hour, minute, second) raises ValueError outside 0..23, 0..59, 0..59.
MakeTime(h, m, sec) ==
    IF h \in 0..23 /\ m \in 0..59 /\ sec \in 0..59 THEN TimeV(h, m, sec) ELSE NoneV

\* An int | None of the date and time helpers: None is NoInt.
NoInt == -1

\* (reg >> 8) & 0xFF and reg & 0xFF
HighByte(reg) == (reg \div 256) % 256

LowByte(reg) == reg % 256

\* A datetime.datetime (naive; the time zone attached at the end is not modelled).
DateTimeV(year, month, day, hour, minute, second) ==
    [t |-> "datetime", year |-> year, month |-> month, day |-> day,
     hour |-> hour, minute |-> minute, second |-> second]

IsLeap(year) == (year % 4 = 0 /\ year % 100 # 0) \/ year % 400 = 0

DaysInMonth(year, month) ==
    CASE month \in {4, 6, 9, 11} -> 30
      [] month = 2 -> (IF IsLeap(year) THEN 29 ELSE 28)
      [] OTHER -> 31

\* A faulty constructor, for comparison: the day is not checked against the month.
MakeDateTimeAnyDay(year, month, day, hour, minute, second) ==
    IF /\ year \in 1..9999 /\ month \in 1..12 /\ day \in 1..31
       /\ hour \in 0..23 /\ minute \in 0..59 /\ second \in 0..59
    THEN DateTimeV(year, month, day, hour, minute, second)
    ELSE NoneV

\* dt.datetime(year, month, day, hour, minute, second) inside try/except:
\* NoneV where the constructor raises ValueError.
MakeDateTime(year, month, day, hour, minute, second) ==
    IF /\ year \in 1..9999 /\ month \in 1..12
       /\ day >= 1 /\ day <= DaysInMonth(year, month)
       /\ hour \in 0..23 /\ minute \in 0..59 /\ second \in 0..59
    THEN DateTimeV(year, month, day, hour, minute, second)
    ELSE NoneV

_bcd_byte_to_int(raw) ==
    LET tens == (raw \div 16) % 16
        ones == raw % 16
    IN  IF tens >= 10 \/ ones >= 10 THEN NoInt ELSE tens * 10 + ones

_try_year(val) ==
    IF 1970 <= val /\ val <= 2100 THEN val
    ELSE IF 0 <= val /\ val < 100 THEN (IF 2000 + val <= 2100 THEN 2000 + val ELSE NoInt)
    ELSE LET high == _bcd_byte_to_int(HighByte(val))
             low  == _bcd_byte_to_int(LowByte(val))
         IN  IF high = NoInt \/ low = NoInt THEN NoInt
             ELSE IF 1970 <= high * 100 + low /\ high * 100 + low <= 2100
                  THEN high * 100 + low ELSE NoInt

\* Direct, then with the two bytes swapped.
_decode_year(raw) ==
    IF _try_year(raw) # NoInt THEN _try_year(raw)
    ELSE _try_year(LowByte(raw) * 256 + HighByte(raw))

\* A faulty component decode, for comparison: the BCD reading comes first and
\* the binary value only when the byte is no BCD value in range.
_decode_component_bcd_first(raw, upper, allow_zero) ==
    LET decoded == _bcd_byte_to_int(raw)
        lower   == IF allow_zero THEN 0 ELSE 1
    IN  IF decoded # NoInt /\ lower <= decoded /\ decoded <= upper THEN decoded
        ELSE IF lower <= raw /\ raw <= upper THEN raw
        ELSE NoInt

\* A byte in the binary range is taken as it is; otherwise it is read as BCD.
_decode_component(raw, upper, allow_zero) ==
    IF (allow_zero /\ 0 <= raw /\ raw <= upper) \/ (~allow_zero /\ 1 <= raw /\ raw <= upper)
    THEN raw
    ELSE LET decoded == _bcd_byte_to_int(raw)
         IN  IF decoded = NoInt THEN NoInt
             ELSE IF allow_zero
                  THEN (IF 0 <= decoded /\ decoded <= upper THEN decoded ELSE NoInt)
                  ELSE (IF 1 <= decoded /\ decoded <= upper THEN decoded ELSE NoInt)

\* <<month, day>> from (high, low), else from (low, high), else <<None, None>>.
_decode_month_day(raw) ==
    LET m1 == _decode_component(HighByte(raw), 12, FALSE)
        d1 == _decode_component(LowByte(raw), 31, FALSE)
        m2 == _decode_component(LowByte(raw), 12, FALSE)
        d2 == _decode_component(HighByte(raw), 31, FALSE)
    IN  IF m1 # NoInt /\ d1 # NoInt THEN <<m1, d1>>
        ELSE IF m2 # NoInt /\ d2 # NoInt THEN <<m2, d2>>
        ELSE <<NoInt, NoInt>>

\* <<hour, minute>> from (high, low), else from (low, high), else <<None, None>>.
_decode_hour_min(raw) ==
    LET h1 == _decode_component(HighByte(raw), 23, TRUE)
        n1 == _decode_component(LowByte(raw), 59, TRUE)
        h2 == _decode_component(LowByte(raw), 23, TRUE)
        n2 == _decode_component(HighByte(raw), 59, TRUE)
    IN  IF h1 # NoInt /\ n1 # NoInt THEN <<h1, n1>>
        ELSE IF h2 # NoInt /\ n2 # NoInt THEN <<h2, n2>>
        ELSE <<NoInt, NoInt>>

_decode_two_digit_year(raw) ==
    IF 0 <= raw /\ raw <= 99 /\ 1970 <= 2000 + raw /\ 2000 + raw <= 2100
    THEN 2000 + raw
    ELSE _decode_year(raw)

\* The fixed layout reg0 = YY/MM, reg1 = DD/HH, reg2 = mm/SS: the date-time
\* it returns, NoneV when a byte does not validate or the constructor raises.
SolarmanLayout(regs_in) ==
    LET solarman_year   == _decode_two_digit_year(HighByte(regs_in[1]))
        solarman_month  == _decode_component(LowByte(regs_in[1]), 12, FALSE)
        solarman_day    == _decode_component(HighByte(regs_in[2]), 31, FALSE)
        solarman_hour   == _decode_component(LowByte(regs_in[2]), 23, TRUE)
        solarman_minute == _decode_component(HighByte(regs_in[3]), 59, TRUE)
        solarman_second == _decode_component(LowByte(regs_in[3]), 59, TRUE)
    IN  IF NoInt \in {solarman_year, solarman_month, solarman_day,
                      solarman_hour, solarman_minute, solarman_second}
        THEN NoneV
        ELSE MakeDateTime(solarman_year, solarman_month, solarman_day,
                          solarman_hour, solarman_minute, solarman_second)

\* idx_orders, with the indices counted from 1.
idx_orders == << <<1, 2, 3>>, <<2, 1, 3>>, <<3, 1, 2>>, <<1, 3, 2>>, <<2, 3, 1>>, <<3, 2, 1>> >>

\* The components the loop computes for one order: <<year, month, day, hour, minute>>.
OrderComponents(regs_in, order) ==
    LET year == _decode_year(regs_in[order[1]])
        md   == _decode_month_day(regs_in[order[2]])
        hm   == _decode_hour_min(regs_in[order[3]])
    IN  <<year, md[1], md[2], hm[1], hm[2]>>

\* The loop over idx_orders from order k on.  An order with a None component
\* is skipped by "continue"; the try block that would return the date-time is
\* indented under that "continue", so for an order without a None component
\* the body is over and the next order follows.  No order returns.
RECURSIVE PermutationLoop(_, _)
PermutationLoop(regs_in, k) ==
    IF k > Len(idx_orders) THEN NoneV
    ELSE IF \E i \in 1..5 : OrderComponents(regs_in, idx_orders[k])[i] = NoInt
         THEN PermutationLoop(regs_in, k + 1)
         ELSE PermutationLoop(regs_in, k + 1)

\* The fallback: the six bytes of the three registers as YH, YL, M, D, H, M.
LinearFallback(regs_in) ==
    LET year   == _decode_year(regs_in[1])
        month  == _decode_component(HighByte(regs_in[2]), 12, FALSE)
        day    == _decode_component(LowByte(regs_in[2]), 31, FALSE)
        hour   == _decode_component(HighByte(regs_in[3]), 23, TRUE)
        minute == _decode_component(LowByte(regs_in[3]), 59, TRUE)
    IN  IF NoInt \in {year, month, day, hour, minute} THEN NoneV
        ELSE MakeDateTime(year, month, day, hour, minute, 0)

_decode_datetime_from_regs(regs_in) ==
    IF Len(regs_in) < 3 THEN NoneV
    ELSE IF SolarmanLayout(regs_in).t # "none" THEN SolarmanLayout(regs_in)
    ELSE IF PermutationLoop(regs_in, 1).t # "none" THEN PermutationLoop(regs_in, 1)
    ELSE LinearFallback(regs_in)

\* Rule 8 on a time item: hour and minute from the two bytes of the first
\* register, with the bytes swapped when that order does not validate; the
\* second from the low byte of the second register, 0 without one.
Rule8Time(regs) ==
    LET hour   == _decode_component(HighByte(regs[1]), 23, TRUE)
        minute == _decode_component(LowByte(regs[1]), 59, TRUE)
        second == IF Len(regs) > 1 THEN _decode_component(LowByte(regs[2]), 59, TRUE) ELSE 0
        hour_swapped   == _decode_component(LowByte(regs[1]), 23, TRUE)
        minute_swapped == _decode_component(HighByte(regs[1]), 59, TRUE)
        swap == (hour = NoInt \/ minute = NoInt)
                    /\ hour_swapped # NoInt /\ minute_swapped # NoInt
        h == IF swap THEN hour_swapped ELSE hour
        m == IF swap THEN minute_swapped ELSE minute
    IN  IF NoInt \in {h, m, second} THEN NoneV ELSE MakeTime(h, m, second)

\* The rules _decode_item has a branch for (None is 0): unsigned16, signed16,
\* unsigned32 high-low, the two string rules, BCD date/time and HHMM.
DecoderRules == {0, 1, 2, 4, 5, 7, 8, 9}

\* The value the rule gives, before the offset/mask/divide/scale/lookup pipeline;
\* NoneV where the code returns None at once.  Rules 5 and 7 (strings) occur
\* in no modelled definition and are not spelled out.
RuleValue(item, regs) ==
    CASE item.rule \in {0, 1} -> IntV(regs[1])
      [] item.rule = 2 -> Rule2Value(item, Signed16(regs[1]))
      [] item.rule = 4 /\ Len(regs) >= 2 -> IntV(regs[1] * WordMod + regs[2])
      [] item.rule = 8 /\ item.platform = "datetime" /\ Len(regs) >= 3 ->
            _decode_datetime_from_regs(SubSeq(regs, 1, 3))
      [] item.rule = 8 /\ item.platform = "time" /\ Len(regs) >= 1 -> Rule8Time(regs)
      [] item.rule = 9 -> MakeTime(regs[1] \div 100, regs[1] % 100, 0)
      [] OTHER -> NoneV

\* val = val - item.offset, skipped when offset is falsy or the subtraction raises.
ApplyOffset(item, v) ==
    IF item.offset # 0 /\ IsNumber(v)
    THEN (IF v.t = "int" THEN IntV(v.a - item.offset)
          ELSE FloatV(v.a - item.offset * v.b, v.b))
    ELSE v

\* val = val & item.mask, skipped when mask is None or val is not an int.
ApplyMask(item, v) ==
    IF item.hasMask /\ v.t = "int" THEN IntV(BitAnd(v.a, item.mask)) ELSE v

\* val = val / item.divide (true division: always a float).
ApplyDivide(item, v) ==
    IF item.divide # 0 /\ IsNumber(v) THEN FloatV(v.a, v.b * item.divide) ELSE v

\* val = val * scale when scale is truthy; int * list is a list (t = "list" of
\* a copies of the scale list), float * list raises and is skipped.
ApplyScale(item, v) ==
    LET sc == PipelineScale(item)
    IN  CASE sc.kind = "int" /\ sc.num # 0 /\ IsNumber(v) -> MulNum(v, sc.num, 1, TRUE)
          [] sc.kind = "float" /\ sc.num # 0 /\ IsNumber(v) -> MulNum(v, sc.num, sc.den, FALSE)
          [] sc.kind = "list" /\ v.t = "int" ->
                [t |-> "list", a |-> (IF v.a < 0 THEN 0 ELSE v.a), b |-> sc.num,
                 c |-> sc.den, s |-> ""]
          [] OTHER -> v

\* item.lookup.get(k): the label, or NoneV.
LookupGet(item, k) ==
    IF k \in DOMAIN item.lookup THEN StrV(item.lookup[k]) ELSE NoneV

\* a or b on lookup results: a label that is the empty string is falsy.
PyOr(x, y) == IF x.t = "none" \/ (x.t = "str" /\ x.s = "") THEN y ELSE x

\* A faulty lookup, for comparison: time_of_use is looked up with bit 0
\* cleared only, never under the value itself.
ApplyLookupBaseOnly(item, v) ==
    IF item.lookup = NoLookup \/ v.t # "int" THEN v
    ELSE IF item.key = "time_of_use"
         THEN LET base    == v.a - (v.a % 2)
                  decoded == LookupGet(item, base)
              IN  IF decoded.t = "none" THEN v ELSE decoded
    ELSE IF item.key = "meter"
         THEN LET masked == IF item.hasMask /\ item.mask # 0
                            THEN BitAnd(v.a, item.mask) ELSE v.a
                  first  == LookupGet(item, masked)
                  mapped == IF first.t = "none" THEN LookupGet(item, v.a) ELSE first
              IN  IF mapped.t = "none" THEN v ELSE mapped
    ELSE IF v.a \in DOMAIN item.lookup THEN StrV(item.lookup[v.a]) ELSE v

ApplyLookup(item, v) ==
    IF item.lookup = NoLookup \/ v.t # "int" THEN v
    ELSE IF item.key = "time_of_use"
         THEN LET base    == v.a - (v.a % 2)
                  decoded == PyOr(LookupGet(item, v.a), LookupGet(item, base))
              IN  IF decoded.t = "none" THEN v ELSE decoded
    ELSE IF item.key = "meter"
         THEN LET masked == IF item.hasMask /\ item.mask # 0
                            THEN BitAnd(v.a, item.mask) ELSE v.a
                  first  == LookupGet(item, masked)
                  mapped == IF first.t = "none" THEN LookupGet(item, v.a) ELSE first
              IN  IF mapped.t = "none" THEN v ELSE mapped
    ELSE IF v.a \in DOMAIN item.lookup THEN StrV(item.lookup[v.a]) ELSE v

\* The last step: a date-time outside 1970..2100 is dropped.
Normalize(v) ==
    IF v.t = "datetime" /\ (v.year < 1970 \/ v.year > 2100) THEN NoneV ELSE v

_decode_item(item, regs) ==
    IF Len(regs) = 0 THEN NoneV
    ELSE LET v0 == RuleValue(item, regs)
         IN  IF v0.t = "none" THEN NoneV
             ELSE Normalize(ApplyLookup(item,
                    ApplyScale(item, ApplyDivide(item, ApplyMask(item, ApplyOffset(item, v0))))))

(***************************************************************************)
(* The span builder, _build_spans.  A range is <<start, end>> (half open), *)
(* a span is <<start, count>>.                                             *)
(***************************************************************************)
RECURSIVE SeqMin(_)
SeqMin(s) ==
    IF Len(s) = 1 THEN s[1]
    ELSE LET m == SeqMin(Tail(s)) IN IF s[1] <= m THEN s[1] ELSE m

RECURSIVE SeqMax(_)
SeqMax(s) ==
    IF Len(s) = 1 THEN s[1]
    ELSE LET m == SeqMax(Tail(s)) IN IF s[1] >= m THEN s[1] ELSE m

\* (min(item.registers), max(item.registers) + 1)
ItemRange(item) == <<SeqMin(item.registers), SeqMax(item.registers) + 1>>

\* list.sort(key=lambda r: r[0]) is stable: r goes after every range whose
\* start is not larger.
RECURSIVE InsertRange(_, _)
InsertRange(sorted, r) ==
    IF sorted = <<>> THEN <<r>>
    ELSE IF r[1] < sorted[1][1] THEN <<r>> \o sorted
    ELSE <<sorted[1]>> \o InsertRange(Tail(sorted), r)

\* A faulty sort, for comparison: the ranges stay in the order of the items.
SortRangesNone(ranges, sorted) == sorted \o ranges

RECURSIVE SortRanges(_, _)
SortRanges(ranges, sorted) ==
    IF ranges = <<>> THEN sorted
    ELSE SortRanges(Tail(ranges), InsertRange(sorted, ranges[1]))

\* A faulty merge, for comparison: the current end is replaced by the end of
\* the merged range instead of the larger of the two.
RECURSIVE MergeRangesLastEnd(_, _, _, _)
MergeRangesLastEnd(rest, cur_start, cur_end, spans) ==
    IF rest = <<>> THEN Append(spans, <<cur_start, cur_end - cur_start>>)
    ELSE LET start == rest[1][1]
             end   == rest[1][2]
         IN  IF start <= cur_end
             THEN MergeRangesLastEnd(Tail(rest), cur_start, end, spans)
             ELSE MergeRangesLastEnd(Tail(rest), start, end,
                                     Append(spans, <<cur_start, cur_end - cur_start>>))

\* The merge loop over ranges[1:], with the current span (cur_start, cur_end).
RECURSIVE MergeRanges(_, _, _, _)
MergeRanges(rest, cur_start, cur_end, spans) ==
    IF rest = <<>> THEN Append(spans, <<cur_start, cur_end - cur_start>>)
    ELSE LET start == rest[1][1]
             end   == rest[1][2]
         IN  IF start <= cur_end
             THEN MergeRanges(Tail(rest), cur_start,
                              IF end > cur_end THEN end ELSE cur_end, spans)
             ELSE MergeRanges(Tail(rest), start, end,
                              Append(spans, <<cur_start, cur_end - cur_start>>))

_build_spans(items) ==
    LET ranges == SortRanges([i \in 1..Len(items) |-> ItemRange(items[i])], <<>>)
    IN  IF ranges = <<>> THEN <<>>
        ELSE MergeRanges(Tail(ranges), ranges[1][1], ranges[1][2], <<>>)

\* The keys of the modelled definitions in which "power" / "current" occurs.
PowerKeys == {"battery_power", "program_1_power", "load_power"}

CurrentKeys == {"battery_current", "battery_max_charging_current", "grid_current"}

\* (item.unit or "").lower() in ("a", "w") or "power" in item.key or "current" in item.key
IsFastItem(item) ==
    \/ item.unit \in {"a", "A", "w", "W"}
    \/ item.key \in PowerKeys
    \/ item.key \in CurrentKeys

RECURSIVE SelectFast(_)
SelectFast(items) ==
    IF items = <<>> THEN <<>>
    ELSE (IF IsFastItem(items[1]) THEN <<items[1]>> ELSE <<>>) \o SelectFast(Tail(items))

\* fast_spans = _build_spans(fast_items) or spans
FastSpans(items) ==
    LET fs == _build_spans(SelectFast(items))
    IN  IF fs = <<>> THEN _build_spans(items) ELSE fs

(***************************************************************************)
(* The loaded definitions the poll cycle is checked on.                    *)
(***************************************************************************)
WithUnit(item, unit) == [item EXCEPT !.unit = unit]

WithScale(item, scale) == [item EXCEPT !.scale = scale]

WithMask(item, mask) == [item EXCEPT !.hasMask = TRUE, !.mask = mask]

WithLookup(item, lookup) == [item EXCEPT !.lookup = lookup]

WithRange(item, lo, hi) ==
    [item EXCEPT !.hasMin = TRUE, !.range_min = lo, !.hasMax = TRUE, !.range_max = hi]

\* A signed sensor in watts (fast), an unsigned sensor next to it, and an
\* HHMM time two registers further: full spans (0,2) (3,1), fast span (0,1).
DefHybrid ==
    << WithUnit(DefinitionItem("battery_power", "sensor", <<0>>, 2), "W"),
       WithUnit(DefinitionItem("battery_soc", "sensor", <<1>>, 1), "%"),
       DefinitionItem("program_1_time", "time", <<3>>, 9) >>

\* No fast item at all (fast_spans falls back to spans): two HHMM times.
DefTimes ==
    << DefinitionItem("program_1_time", "time", <<3>>, 9),
       DefinitionItem("program_2_time", "time", <<5>>, 9) >>

\* A fast item whose register is the first of the two registers of a time
\* item that is not fast: full span (1,2), fast span (1,1), so a fast cycle
\* reads one of the two registers of the time item.
DefPartial ==
    << WithUnit(DefinitionItem("grid_current", "sensor", <<1>>, 1), "A"),
       DefinitionItem("device_clock", "time", <<1, 2>>, 8) >>

LoadedDefinitions == {DefHybrid, DefTimes, DefPartial}

\* The words a polled register may hold: a small value, a valid HHMM, and a
\* word that is negative as signed16 and no valid HHMM.
PollWords == {5, 1230, 65535}

(***************************************************************************)
(* Bounds of the poll model: the monotonic clock runs to MaxTime seconds   *)
(* and advances by 1..MaxStep seconds between two cycles.                  *)
(***************************************************************************)
MaxTime == 6

MaxStep == 5

\* SLOW_POLL_INTERVAL.total_seconds()
SLOW_POLL_INTERVAL == 5

(***************************************************************************)
(* State                                                                   *)
(***************************************************************************)
VARIABLES
    def_items,       \* the loaded definition items (fixed after setup)
    now,             \* time.monotonic() at the last cycle start
    last_ts,         \* nonlocal last_ts
    last_full_read,  \* nonlocal last_full_read
    meta,            \* hass.data[DOMAIN][entry_id]["meta"]
    registered,      \* "definitions" in hass.data[DOMAIN][entry_id]
    coordData,       \* coordinator.data, the published snapshot
    poll             \* the last cycle: what it read, decoded and returned

pollVars == <<def_items, now, last_ts, last_full_read, meta, registered, coordData, poll>>

VARIABLES
    device,   \* the inverter's holding registers: address -> word
    wr,       \* the write request each caller has in progress
    written   \* the addresses write_register was ever called for

writeVars == <<device, wr, written>>

VARIABLES
    dec,      \* one call of _decode_item (and of _to_raw on what it returned)
    spn,      \* one call of _build_spans, and a second one on the fields reordered
    ld        \* one call of load_definition

pureVars == <<dec, spn, ld>>

vars == <<def_items, now, last_ts, last_full_read, meta, registered, coordData, poll,
          device, wr, written, dec, spn, ld>>

\* No call of the function in progress.
NoCall == [stage |-> "idle"]

EmptyData == [k \in {} |-> NoneV]

NoSuccess == -1

\* One span read the way the transport answers it.
ReadOk(words) == [kind |-> "ok", words |-> words]

ReadError == [kind |-> "error", words |-> <<>>]

ReadRaise == [kind |-> "raise", words |-> <<>>]

OutcomesFor(count) == {ReadError, ReadRaise} \cup {ReadOk(w) : w \in [1..count -> PollWords]}

\* One answer per span of the list.
RECURSIVE OutcomeSeqs(_)
OutcomeSeqs(spans) ==
    IF spans = <<>> THEN {<<>>}
    ELSE {<<o>> \o rest : o \in OutcomesFor(spans[1][2]), rest \in OutcomeSeqs(Tail(spans))}

\* registers[start + idx] = reg_val for idx, reg_val in enumerate(rr.registers)
StoreWords(registers, start, words) ==
    [a \in DOMAIN registers \cup {start + i - 1 : i \in 1..Len(words)} |->
        IF a \in {start + i - 1 : i \in 1..Len(words)} THEN words[a - start + 1]
        ELSE registers[a]]

\* A faulty read loop, for comparison: the first span that fails ends the loop.
RECURSIVE ReadSpansAbort(_, _, _, _)
ReadSpansAbort(spans, outcomes, i, acc) ==
    IF i > Len(spans) THEN acc
    ELSE LET start == spans[i][1]
             count == spans[i][2]
             req   == Append(acc.log, <<start, count>>)
         IN  IF outcomes[i].kind = "ok"
             THEN ReadSpansAbort(spans, outcomes, i + 1,
                                 [log |-> req,
                                  registers |-> StoreWords(acc.registers, start, outcomes[i].words),
                                  successful_spans |-> acc.successful_spans + 1])
             ELSE [acc EXCEPT !.log = req]

\* The read loop from span i on: every span is requested; a read that returns
\* an error result or raises is logged and the loop continues.
RECURSIVE ReadSpans(_, _, _, _)
ReadSpans(spans, outcomes, i, acc) ==
    IF i > Len(spans) THEN acc
    ELSE LET start == spans[i][1]
             count == spans[i][2]
             req   == Append(acc.log, <<start, count>>)
         IN  IF outcomes[i].kind = "ok"
             THEN ReadSpans(spans, outcomes, i + 1,
                            [log |-> req,
                             registers |-> StoreWords(acc.registers, start, outcomes[i].words),
                             successful_spans |-> acc.successful_spans + 1])
             ELSE ReadSpans(spans, outcomes, i + 1, [acc EXCEPT !.log = req])

NoRegisters == [a \in {} |-> 0]

\* The registers of an item as the decode loop collects them.
ItemWords(item, registers) ==
    [j \in 1..Len(item.registers) |-> registers[item.registers[j]]]

\* A faulty decode loop, for comparison: an item whose decode is None is kept.
DecodableAny(items, registers) ==
    {i \in 1..Len(items) :
        \A j \in 1..Len(items[i].registers) : items[i].registers[j] \in DOMAIN registers}

\* The indices of the items whose registers were all read and whose decode is not None.
Decodable(items, registers) ==
    {i \in 1..Len(items) :
        /\ \A j \in 1..Len(items[i].registers) : items[i].registers[j] \in DOMAIN registers
        /\ _decode_item(items[i], ItemWords(items[i], registers)).t # "none"}

\* The last item of the key k among the items with indices in ok.
LastOfKey(items, ok, k) ==
    CHOOSE i \in ok : items[i].key = k /\ \A j \in ok : items[j].key = k => j <= i

\* data[item.key] = val for the items with indices in ok, a later item of
\* the same key overwriting.
CollectData(items, registers, ok) ==
    [k \in {items[i].key : i \in ok} |->
        _decode_item(items[LastOfKey(items, ok, k)],
                     ItemWords(items[LastOfKey(items, ok, k)], registers))]

\* The decode loop.
DecodeAll(items, registers) == CollectData(items, registers, Decodable(items, registers))

\* A faulty merge, for comparison: the cycle's values replace the snapshot.
MergeDataOnly(prev, data) == data

\* merged = dict(prev); merged.update(data)
MergeSnapshots(prev, data) ==
    [k \in DOMAIN prev \cup DOMAIN data |-> IF k \in DOMAIN data THEN data[k] ELSE prev[k]]

MsgNoReads == "No Modbus definition reads succeeded; keeping previous data"

MsgNoValues == "Definition decode produced no values; keeping previous data"

\* A faulty fallback, for comparison: a cycle without values returns nothing.
KeepOrFailEmpty(prev, msg) == [kind |-> "return", value |-> [k \in {} |-> NoneV], msg |-> ""]

\* "if prev: return prev" else "raise UpdateFailed(msg)", inside the try block.
KeepOrFail(prev, msg) ==
    IF DOMAIN prev # {} THEN [kind |-> "return", value |-> prev, msg |-> ""]
    ELSE [kind |-> "raise", value |-> EmptyData, msg |-> msg]

\* The handler "except Exception as err" around the whole body: the error text
\* is recorded and prev is returned.
OuterExcept(body, prev, meta0) ==
    IF body.kind = "raise"
    THEN [kind |-> "return", value |-> prev,
          meta |-> [meta0 EXCEPT !.last_error = body.msg]]
    ELSE [kind |-> "return", value |-> body.value, meta |-> meta0]

\* The body of the try block after the read loop: rd is what the loop left
\* (log, registers, successful_spans), existing the data of the registered
\* coordinator ({} when there is none).  succeeded tells that last_success was
\* set and last_error cleared; last_ts is the new value of the nonlocal.
AfterDecode(data, prev, existing, read_ts, lts, rd) ==
    IF DOMAIN rd.registers = {} THEN
        KeepOrFail(prev, MsgNoReads) @@
        [data |-> EmptyData, succeeded |-> FALSE, last_ts |-> lts]
    ELSE IF DOMAIN data = {} THEN
        KeepOrFail(prev, MsgNoValues) @@
        [data |-> data, succeeded |-> FALSE, last_ts |-> lts]
    ELSE IF read_ts <= lts THEN
        [kind |-> "return", value |-> existing, msg |-> "",
         data |-> data, succeeded |-> TRUE, last_ts |-> lts]
    ELSE LET merged == MergeSnapshots(prev, data)
         IN  [kind |-> "return", value |-> IF merged = prev THEN prev ELSE merged,
              msg |-> "", data |-> data, succeeded |-> TRUE, last_ts |-> read_ts]

UpdateBody(items, prev, existing, read_ts, lts, rd) ==
    AfterDecode(DecodeAll(items, rd.registers), prev, existing, read_ts, lts, rd)

\* A faulty cadence, for comparison: a cycle exactly one threshold after the
\* last full cycle is still fast.
IsFullPassLate(read_ts, lfr) == (read_ts - lfr) > SLOW_POLL_INTERVAL

\* full_pass = (read_ts - last_full_read) >= SLOW_POLL_INTERVAL.total_seconds()
IsFullPass(read_ts, lfr) == (read_ts - lfr) >= SLOW_POLL_INTERVAL

\* One poll cycle, _async_update_definitions, followed by the coordinator
\* publishing what it returned.  The clock has advanced by d since the last
\* cycle started.
Poll ==
    \E d \in 1..MaxStep :
        /\ now + d <= MaxTime
        /\ LET read_ts       == now + d
               prev          == IF registered THEN coordData ELSE EmptyData
               spans         == _build_spans(def_items)
               fast_spans    == FastSpans(def_items)
               full_pass     == IsFullPass(read_ts, last_full_read)
               spans_to_read == IF full_pass THEN spans ELSE fast_spans
           IN  \E outcomes \in OutcomeSeqs(spans_to_read) :
               \E rd \in {ReadSpans(spans_to_read, outcomes, 1,
                                    [log |-> <<>>, registers |-> NoRegisters,
                                     successful_spans |-> 0])} :
               \E body \in {UpdateBody(def_items, prev, prev, read_ts, last_ts, rd)} :
               \E res \in {OuterExcept(body, prev,
                                        IF body.succeeded
                                        THEN [last_success |-> read_ts, last_error |-> ""]
                                        ELSE meta)} :
                     /\ now' = read_ts
                     /\ last_full_read' = IF full_pass THEN read_ts ELSE last_full_read
                     /\ last_ts' = body.last_ts
                     /\ meta' = res.meta
                     /\ coordData' = IF res.kind = "return" THEN res.value ELSE coordData
                     /\ registered' = (registered \/ res.kind = "return")
                     /\ poll' = [result |-> IF res.kind = "return" THEN "returned" ELSE "raised",
                                 prev |-> prev, data |-> body.data, full |-> full_pass,
                                 spans |-> spans_to_read, outcomes |-> outcomes,
                                 log |-> rd.log, read_ts |-> read_ts]
                     /\ UNCHANGED <<def_items, device, wr, written, dec, spn, ld>>

NoPoll ==
    [result |-> "none", prev |-> EmptyData, data |-> EmptyData, full |-> FALSE,
     spans |-> <<>>, outcomes |-> <<>>, log |-> <<>>, read_ts |-> 0]

(***************************************************************************)
(* The write path: number.py, select.py, time.py.                          *)
(***************************************************************************)
_WRITABLE_NUMBER_KEYS ==
    {"program_1_power", "program_2_power", "program_3_power", "program_4_power",
     "program_5_power", "program_6_power",
     "program_1_voltage", "program_2_voltage", "program_3_voltage", "program_4_voltage",
     "program_5_voltage", "program_6_voltage",
     "program_1_soc", "program_2_soc", "program_3_soc", "program_4_soc",
     "program_5_soc", "program_6_soc",
     "battery_max_charging_current", "battery_max_discharging_current",
     "battery_generator_charging_current", "battery_grid_charging_current",
     "battery_shutdown_soc", "battery_restart_soc", "battery_low_soc",
     "battery_grid_charging_start", "battery_generator_charging_start"}

_WRITABLE_SELECT_KEYS ==
    {"time_of_use", "program_1_charging", "program_2_charging", "program_3_charging",
     "program_4_charging", "program_5_charging", "program_6_charging"}

_WRITABLE_TIME_KEYS ==
    {"program_1_time", "program_2_time", "program_3_time", "program_4_time",
     "program_5_time", "program_6_time"}

\* What a write request carries: a number n/d, an option label, or a time h:m.
NumArg(n, d) == [kind |-> "number", n |-> n, d |-> d, s |-> ""]

OptArg(label) == [kind |-> "option", n |-> 0, d |-> 1, s |-> label]

TimeArg(h, m) == [kind |-> "time", n |-> h, d |-> m, s |-> ""]

\* int(round(n/d)) for d > 0: Python rounds halves to the even neighbour.
RoundHalfEven(n, d) ==
    LET q == n \div d
        r == n % d
    IN  IF 2 * r < d THEN q
        ELSE IF 2 * r > d THEN q + 1
        ELSE IF q % 2 = 0 THEN q ELSE q + 1

\* A faulty inversion, for comparison: the scale is not divided out.
InverseScaleNone(scale, n, d) == <<n, d>>

\* val / scale as the fraction <<numerator, denominator>>, denominator > 0.
\* A list scale divides by scale[0] / scale[1], or by scale[0] when scale[1]
\* is falsy; a scale that is None or 0 leaves val as it is.
InverseScale(scale, n, d) ==
    LET pos(f) == IF f[2] < 0 THEN <<-f[1], -f[2]>> ELSE f
    IN  CASE scale.kind = "int" /\ scale.num # 0   -> pos(<<n, d * scale.num>>)
          [] scale.kind = "float" /\ scale.num # 0 -> pos(<<n * scale.den, d * scale.num>>)
          [] scale.kind = "list" /\ scale.den # 0  -> pos(<<n * scale.den, d * scale.num>>)
          [] scale.kind = "list" /\ scale.den = 0  -> pos(<<n, d * scale.num>>)
          [] OTHER -> <<n, d>>

\* A faulty conversion, for comparison: no range check, the raw value wraps
\* into a word.
_to_raw_wrapping(item, n, d) ==
    LET q == InverseScale(item.scale, n, d)
    IN  [ok |-> TRUE, raw |-> RoundHalfEven(q[1], q[2]) % WordMod, err |-> ""]

\* DeyeDefinitionNumber._to_raw for the value n/d: the raw word, or the error.
_to_raw(item, n, d) ==
    IF item.hasMin /\ n < item.range_min * d THEN [ok |-> FALSE, raw |-> 0, err |-> "below_min"]
    ELSE IF item.hasMax /\ n > item.range_max * d THEN [ok |-> FALSE, raw |-> 0, err |-> "above_max"]
    ELSE LET q         == InverseScale(item.scale, n, d)
             raw_value == RoundHalfEven(q[1], q[2])
         IN  IF raw_value < 0 \/ raw_value > WordMod - 1
             THEN [ok |-> FALSE, raw |-> raw_value, err |-> "raw_range"]
             ELSE [ok |-> TRUE, raw |-> raw_value, err |-> ""]

\* reverse = {v: k for k, v in lookup.items()}; reverse[option].  Of several
\* keys with the same label the one entered last wins; the lookups modelled
\* list their keys in increasing order.
ReverseKey(lookup, option) ==
    CHOOSE k \in DOMAIN lookup :
        lookup[k] = option /\ \A j \in DOMAIN lookup : lookup[j] = option => j <= k

\* A faulty combination, for comparison: the bits outside the mask are dropped.
MaskedValueNoPreserve(current, mask, value) == BitAnd(value, mask)

\* (current & ~mask) | (value & mask)
MaskedValue(current, mask, value) == BitOr(BitClear(current, mask), BitAnd(value, mask))

\* One transport call as the request's log keeps it: op read / write / refresh
\* (the refresh asked of the coordinator), the address, the value written,
\* the way the call ended (ok / error / raise) and the word a read returned.
Call(op, addr, value, res, word) ==
    [op |-> op, addr |-> addr, value |-> value, res |-> res, word |-> word]

NoItem == DefinitionItem("", "", <<>>, 0)

NoArg == [kind |-> "none", n |-> 0, d |-> 1, s |-> ""]

IdleWriter ==
    [pc |-> "idle", item |-> NoItem, arg |-> NoArg, address |-> 0, value |-> 0,
     value_to_write |-> 0, calls |-> <<>>, result |-> "none"]

\* A faulty ending, for comparison: the refresh is requested on an error too.
FailWithRefresh(rec, err) ==
    [rec EXCEPT !.pc = "done", !.result = err,
                !.calls = Append(rec.calls, Call("refresh", 0, 0, "ok", 0))]

\* The request ends with HomeAssistantError(err): nothing more is called.
Fail(rec, err) == [rec EXCEPT !.pc = "done", !.result = err]

\* The request falls through to "await self.coordinator.async_request_refresh()".
Succeed(rec) ==
    [rec EXCEPT !.pc = "done", !.result = "ok",
                !.calls = Append(rec.calls, Call("refresh", 0, 0, "ok", 0))]

\* async_set_native_value up to its first await.
StartNumber(item, arg) ==
    LET rec == [IdleWriter EXCEPT !.item = item, !.arg = arg]
        r   == _to_raw(item, arg.n, arg.d)
    IN  IF item.key \notin _WRITABLE_NUMBER_KEYS THEN Fail(rec, "not_supported")
        ELSE IF ~r.ok THEN Fail(rec, r.err)
        ELSE IF item.registers = <<>> THEN Fail(rec, "no_register")
        ELSE [rec EXCEPT !.pc = "write", !.address = item.registers[1],
                         !.value = r.raw, !.value_to_write = r.raw]

\* async_select_option up to its first await: the read of the current word
\* when the item has a (truthy) mask, the write otherwise.
StartSelect(item, arg) ==
    LET rec == [IdleWriter EXCEPT !.item = item, !.arg = arg]
    IN  IF item.key \notin _WRITABLE_SELECT_KEYS THEN Fail(rec, "not_supported")
        ELSE IF item.lookup = NoLookup THEN Fail(rec, "no_lookup")
        ELSE IF \A k \in DOMAIN item.lookup : item.lookup[k] # arg.s
             THEN Fail(rec, "invalid_option")
        ELSE IF item.registers = <<>> THEN Fail(rec, "no_register")
        ELSE LET value == ReverseKey(item.lookup, arg.s)
             IN  [rec EXCEPT !.pc = IF item.hasMask /\ item.mask # 0 THEN "preread" ELSE "write",
                             !.address = item.registers[1],
                             !.value = value, !.value_to_write = value]

\* A faulty time handler, for comparison: the word is the minute of the day.
StartTimeMinutes(item, arg) ==
    LET rec == [IdleWriter EXCEPT !.item = item, !.arg = arg]
    IN  IF item.key \notin _WRITABLE_TIME_KEYS THEN Fail(rec, "not_supported")
        ELSE IF item.registers = <<>> THEN Fail(rec, "no_register")
        ELSE [rec EXCEPT !.pc = "write", !.address = item.registers[1],
                         !.value = arg.n * 60 + arg.d,
                         !.value_to_write = arg.n * 60 + arg.d]

\* A faulty time handler, for comparison: the allowlist is not consulted.
StartTimeAnyKey(item, arg) ==
    LET rec == [IdleWriter EXCEPT !.item = item, !.arg = arg]
    IN  IF item.registers = <<>> THEN Fail(rec, "no_register")
        ELSE [rec EXCEPT !.pc = "write", !.address = item.registers[1],
                         !.value = arg.n * 100 + arg.d,
                         !.value_to_write = arg.n * 100 + arg.d]

\* async_set_value up to its first await.
StartTime(item, arg) ==
    LET rec == [IdleWriter EXCEPT !.item = item, !.arg = arg]
    IN  IF item.key \notin _WRITABLE_TIME_KEYS THEN Fail(rec, "not_supported")
        ELSE IF item.registers = <<>> THEN Fail(rec, "no_register")
        ELSE [rec EXCEPT !.pc = "write", !.address = item.registers[1],
                         !.value = arg.n * 100 + arg.d,
                         !.value_to_write = arg.n * 100 + arg.d]

\* Whether the select treats the item as masked ("if self._definition.mask").
IsMasked(item) == item.platform = "select" /\ item.hasMask /\ item.mask # 0

\* A faulty comparison, for comparison: the whole word is compared, mask or not.
VerifyMismatchFullWord(item, value_to_write, read_value) == read_value # value_to_write

\* The comparison of the word read back with the word written: TRUE when the
\* handler raises "Write verification failed".
VerifyMismatch(item, value_to_write, read_value) ==
    IF IsMasked(item)
    THEN BitAnd(read_value, item.mask) # BitAnd(value_to_write, item.mask)
    ELSE read_value # value_to_write

\* A faulty read-after-write block, for comparison: a read-back that gives no
\* word fails the request.
AfterVerifyStrict(rec, ans) ==
    LET logged == [rec EXCEPT !.calls = Append(rec.calls,
                        Call("read", rec.address, 0, ans.kind, ans.word))]
    IN  IF ans.kind # "ok" \/ VerifyMismatch(rec.item, rec.value_to_write, ans.word)
        THEN Fail(logged, "verify_failed")
        ELSE Succeed(logged)

\* The read-after-write block of number.py and select.py for the answer ans
\* of the transport: only a word that does not match fails the request.
AfterVerify(rec, ans) ==
    LET logged == [rec EXCEPT !.calls = Append(rec.calls,
                        Call("read", rec.address, 0, ans.kind, ans.word))]
    IN  IF ans.kind = "ok" /\ VerifyMismatch(rec.item, rec.value_to_write, ans.word)
        THEN Fail(logged, "verify_failed")
        ELSE Succeed(logged)

\* What follows a write_register call that ended as res: number and select
\* go on to read the register back, time asks for the refresh at once.
AfterWrite(rec, res) ==
    LET logged == [rec EXCEPT !.calls = Append(rec.calls,
                        Call("write", rec.address, rec.value_to_write, res, 0))]
    IN  IF res = "raise" THEN Fail(logged, "write_failed")
        ELSE IF rec.item.platform = "time" THEN Succeed(logged)
        ELSE [logged EXCEPT !.pc = "verify"]

\* A faulty pre-read, for comparison: a read that gives no word is taken as
\* the word 0 and the write goes ahead.
AfterPreReadIgnoreError(rec, ans) ==
    LET logged == [rec EXCEPT !.calls = Append(rec.calls,
                        Call("read", rec.address, 0, ans.kind, ans.word))]
    IN  [logged EXCEPT !.pc = "write",
                       !.value_to_write = MaskedValue(ans.word, rec.item.mask, rec.value)]

\* What follows the read of the current word of a masked select.
AfterPreRead(rec, ans) ==
    LET logged == [rec EXCEPT !.calls = Append(rec.calls,
                        Call("read", rec.address, 0, ans.kind, ans.word))]
    IN  IF ans.kind # "ok" THEN Fail(logged, "write_failed")
        ELSE [logged EXCEPT !.pc = "write",
                            !.value_to_write = MaskedValue(ans.word, rec.item.mask, rec.value)]

(***************************************************************************)
(* The definition the write handlers are checked on: for each platform an  *)
(* item of the write allowlist and one outside it, each on its own         *)
(* register.                                                               *)
(***************************************************************************)
OnOff == (0 :> "Disabled") @@ (1 :> "Enabled")

Charging == (0 :> "Disabled") @@ (3 :> "Enabled")

NumCurrent ==
    WithRange(WithScale(WithUnit(
        DefinitionItem("battery_max_charging_current", "number", <<10>>, 1), "A"),
        IntScale(1)), 0, 200)

NumPower ==
    WithScale(DefinitionItem("program_1_power", "number", <<11>>, 1), FloatScale(1, 10))

NumOther ==
    WithRange(WithScale(DefinitionItem("test_number", "number", <<17>>, 1), IntScale(1)), 0, 100)

SelCharging ==
    WithLookup(WithMask(DefinitionItem("program_1_charging", "select", <<12>>, 1), 15), Charging)

SelToU == WithLookup(DefinitionItem("time_of_use", "select", <<13>>, 1), OnOff)

SelOther == WithLookup(DefinitionItem("work_mode", "select", <<18>>, 1), OnOff)

TimeProg == DefinitionItem("program_1_time", "time", <<15>>, 9)

TimeOther == DefinitionItem("sunrise_time", "time", <<19>>, 9)

DefWritable ==
    <<NumCurrent, NumPower, NumOther, SelCharging, SelToU, SelOther, TimeProg, TimeOther>>

\* The values a user may ask for.
NumberArgs == {NumArg(-5, 1), NumArg(100, 1), NumArg(21, 2), NumArg(70000, 1)}

OptionArgs == {OptArg("Disabled"), OptArg("Enabled"), OptArg("InvalidOption")}

TimeArgs == {TimeArg(12, 30), TimeArg(23, 59)}

ArgsFor(item) ==
    CASE item.platform = "number" -> NumberArgs
      [] item.platform = "select" -> OptionArgs
      [] item.platform = "time"   -> TimeArgs
      [] OTHER -> {}

\* The handler of the item's platform, up to its first await.
StartRequest(item, arg) ==
    CASE item.platform = "number" -> StartNumber(item, arg)
      [] item.platform = "select" -> StartSelect(item, arg)
      [] item.platform = "time"   -> StartTime(item, arg)

AllWriters == {"w1", "w2"}

\* The registers of the items of a definition.
AddressesOf(items) ==
    UNION {{items[i].registers[j] : j \in 1..Len(items[i].registers)} : i \in 1..Len(items)}

\* The word the inverter holds at an address before any write: the register
\* of the masked select holds bits outside the mask.
InitialWord(addr) == IF addr = 12 THEN 240 ELSE 0

\* The bits a register may lose when the inverter stores a word its own way.
DeviceQuirkMask == 80

\* A read of one register: the word, an error result, or an exception.
ReadAnswers(word) ==
    {[kind |-> "ok", word |-> word], [kind |-> "error", word |-> 0],
     [kind |-> "raise", word |-> 0]}

\* A write of value over the word old: the call returns and the inverter
\* stores the value, keeps the old word, or stores the value its own way;
\* or the call raises, with the value stored or not.
WriteEffects(old, value) ==
    {[res |-> "ok", word |-> value], [res |-> "ok", word |-> old],
     [res |-> "ok", word |-> BitClear(value, DeviceQuirkMask)],
     [res |-> "raise", word |-> old], [res |-> "raise", word |-> value]}

\* A caller invokes the write handler of an entity.
Request(w) ==
    /\ wr[w].pc = "idle"
    /\ \E i \in 1..Len(def_items) : \E arg \in ArgsFor(def_items[i]) :
          wr' = [wr EXCEPT ![w] = StartRequest(def_items[i], arg)]
    /\ UNCHANGED <<device, written>>
    /\ UNCHANGED pollVars
    /\ UNCHANGED pureVars

\* The transport answers the read of the current word (masked select).
PreRead(w) ==
    /\ wr[w].pc = "preread"
    /\ \E ans \in ReadAnswers(device[wr[w].address]) :
          wr' = [wr EXCEPT ![w] = AfterPreRead(wr[w], ans)]
    /\ UNCHANGED <<device, written>>
    /\ UNCHANGED pollVars
    /\ UNCHANGED pureVars

\* The transport answers write_register.
Write(w) ==
    /\ wr[w].pc = "write"
    /\ \E eff \in WriteEffects(device[wr[w].address], wr[w].value_to_write) :
          /\ device' = [device EXCEPT ![wr[w].address] = eff.word]
          /\ wr' = [wr EXCEPT ![w] = AfterWrite(wr[w], eff.res)]
    /\ written' = written \cup {wr[w].address}
    /\ UNCHANGED pollVars
    /\ UNCHANGED pureVars

\* The transport answers the read-back.
Verify(w) ==
    /\ wr[w].pc = "verify"
    /\ \E ans \in ReadAnswers(device[wr[w].address]) :
          wr' = [wr EXCEPT ![w] = AfterVerify(wr[w], ans)]
    /\ UNCHANGED <<device, written>>
    /\ UNCHANGED pollVars
    /\ UNCHANGED pureVars

\* The handler has returned or raised; the caller may ask again.
Return(w) ==
    /\ wr[w].pc = "done"
    /\ wr' = [wr EXCEPT ![w] = IdleWriter]
    /\ UNCHANGED <<device, written>>
    /\ UNCHANGED pollVars
    /\ UNCHANGED pureVars

InitPollSpec ==
    /\ def_items \in LoadedDefinitions
    /\ now = 0
    /\ last_ts = 0
    /\ last_full_read = 0
    /\ meta = [last_success |-> NoSuccess, last_error |-> ""]
    /\ registered = FALSE
    /\ coordData = EmptyData
    /\ poll = NoPoll
    /\ device = [a \in AddressesOf(DefWritable) |-> InitialWord(a)]
    /\ wr = [w \in AllWriters |-> IdleWriter]
    /\ written = {}
    /\ dec = NoCall
    /\ spn = NoCall
    /\ ld = NoCall

NextPoll == Poll

\* The poll cycles of a loaded definition.
SpecPoll == InitPollSpec /\ [][NextPoll]_vars

InitWriteSpec ==
    /\ def_items = DefWritable
    /\ now = 0
    /\ last_ts = 0
    /\ last_full_read = 0
    /\ meta = [last_success |-> NoSuccess, last_error |-> ""]
    /\ registered = FALSE
    /\ coordData = EmptyData
    /\ poll = NoPoll
    /\ device = [a \in AddressesOf(DefWritable) |-> InitialWord(a)]
    /\ wr = [w \in AllWriters |-> IdleWriter]
    /\ written = {}
    /\ dec = NoCall
    /\ spn = NoCall
    /\ ld = NoCall

NextWrite ==
    \/ Request("w1")
    \/ PreRead("w1")
    \/ Write("w1")
    \/ Verify("w1")
    \/ Return("w1")

\* One caller at a time writing through the entities of DefWritable.
SpecWrite == InitWriteSpec /\ [][NextWrite]_vars

\* Two masked selects on one register with disjoint masks: the low four bits
\* and bit 5 of register 12.
ChargingBit == (0 :> "Disabled") @@ (32 :> "Enabled")

SelCharging2 ==
    WithLookup(WithMask(DefinitionItem("program_2_charging", "select", <<12>>, 1), 32),
               ChargingBit)

DefShared == <<SelCharging, SelCharging2>>

InitWrite2Spec ==
    /\ def_items = DefShared
    /\ now = 0
    /\ last_ts = 0
    /\ last_full_read = 0
    /\ meta = [last_success |-> NoSuccess, last_error |-> ""]
    /\ registered = FALSE
    /\ coordData = EmptyData
    /\ poll = NoPoll
    /\ device = [a \in AddressesOf(DefShared) |-> InitialWord(a)]
    /\ wr = [w \in AllWriters |-> IdleWriter]
    /\ written = {}
    /\ dec = NoCall
    /\ spn = NoCall
    /\ ld = NoCall

NextWrite2 ==
    \/ \E w \in AllWriters : Request(w)
    \/ \E w \in AllWriters : PreRead(w)
    \/ \E w \in AllWriters : Write(w)
    \/ \E w \in AllWriters : Verify(w)

\* Two callers, each with one request to a masked select of DefShared: a
\* handler runs up to its next await, then either caller's pending transport
\* call is answered.
SpecWrite2 == InitWrite2Spec /\ [][NextWrite2]_vars

(***************************************************************************)
(* The decoder on its own: _decode_item applied to an item and the words   *)
(* of its registers, and _to_raw applied to the value of a number.         *)
(***************************************************************************)
\* The raw words 0..MaxWord and the MaxWord highest words are decoded.
MaxWord == 12

\* The word with the two bytes high and low.
Word(high, low) == high * 256 + low

\* The words of a register: the lowest and the highest, and words around the
\* sign bit and around the range of the scaled numbers.
DecodeWords ==
    (0..MaxWord) \cup {WordMod - k : k \in 1..MaxWord} \cup {105, 1000, 1001, 32767, 32768}

\* The words of a date-time register: BCD bytes (0x24 0x12, 0x31 0x23, 0x59
\* 0x00), binary bytes (24 12, 31 23, 59 0), a 16-bit year, month/day and
\* hour/minute in both byte orders, a year byte 0xFF, February and day 30.
DateTimeWords ==
    {Word(36, 18), Word(49, 35), Word(89, 0),
     Word(24, 12), Word(31, 23), Word(59, 0),
     2024, Word(12, 31), Word(31, 12), Word(23, 59),
     Word(255, 12), Word(255, 7), Word(24, 2), Word(30, 23), 65535}

\* Unsigned numbers with a scalar scale (test_number.py: scale 0.1, range 0..100).
NumTenth ==
    WithRange(WithScale(DefinitionItem("test_number", "number", <<20>>, 1),
                        FloatScale(1, 10)), 0, 100)

NumHundredth ==
    WithScale(DefinitionItem("program_1_voltage", "number", <<21>>, 1), FloatScale(1, 100))

NumTimesTen ==
    WithScale(DefinitionItem("battery_low_soc", "number", <<22>>, 1), IntScale(10))

\* Signed sensors: no scale, a float, an int, and a two-element list.
SgnPlain == DefinitionItem("battery_temperature", "sensor", <<23>>, 2)

SgnTenth ==
    WithScale(DefinitionItem("dc_temperature", "sensor", <<24>>, 2), FloatScale(1, 10))

SgnTimesTen ==
    WithScale(DefinitionItem("ac_temperature", "sensor", <<25>>, 2), IntScale(10))

SgnRatio ==
    WithScale(DefinitionItem("grid_frequency", "sensor", <<26>>, 2), ListScale(1, 10))

\* Items whose key is in _SCALE_OVERRIDES.
OvLoad == WithScale(DefinitionItem("load_power", "sensor", <<27>>, 1), ListScale(1, 10))

OvLimit == DefinitionItem("battery_bms_charge_current_limit", "sensor", <<28>>, 1)

OvCurrent ==
    WithScale(DefinitionItem("battery_current", "sensor", <<29>>, 2), FloatScale(1, 100))

OvGrid == WithScale(DefinitionItem("grid_power", "sensor", <<30>>, 2), ListScale(1, 10))

\* time_of_use with the table of test_select.py and with a table of even keys.
Schedule == (0 :> "Disabled") @@ (2 :> "Weekdays") @@ (4 :> "Weekend")

ToUOnOff == WithLookup(DefinitionItem("time_of_use", "select", <<31>>, 1), OnOff)

ToUSchedule == WithLookup(DefinitionItem("time_of_use", "select", <<31>>, 1), Schedule)

\* A date-time of three registers.
DeviceTime == DefinitionItem("device_time", "datetime", <<32, 33, 34>>, 8)

\* BCD times of one register (hour, minute) and of two (the second register
\* holds the seconds).
BcdTime == DefinitionItem("sunrise_time", "time", <<35>>, 8)

BcdTimeSec == DefinitionItem("device_clock", "time", <<36, 37>>, 8)

\* The words of a BCD time register: those of a date-time register and the
\* BCD bytes 0x23 0x59.
TimeWords == DateTimeWords \cup {Word(35, 89)}

\* The words of an HHMM register: the last minute of an hour and of the day
\* and the words next to them.
HhmmWords == DecodeWords \cup {59, 60, 1230, 2359, 2360, 2400}

\* The times of day a time entity may be set to.
TimesOfDay == {TimeArg(h, m) : h \in 0..23, m \in 0..59}

DecodeItems ==
    {NumTenth, NumHundredth, NumTimesTen, SgnPlain, SgnTenth, SgnTimesTen, SgnRatio,
     OvLoad, OvLimit, OvCurrent, OvGrid, ToUOnOff, ToUSchedule, DeviceTime,
     BcdTime, BcdTimeSec, TimeProg}

\* The register words an item may be decoded from.
RegsFor(item) ==
    IF item.platform = "datetime"
    THEN {<<a, b, c>> : a \in DateTimeWords, b \in DateTimeWords, c \in DateTimeWords}
    ELSE IF item.platform = "time" /\ item.rule = 8
    THEN IF Len(item.registers) > 1
         THEN {<<a, b>> : a \in TimeWords, b \in TimeWords}
         ELSE {<<a>> : a \in TimeWords}
    ELSE IF item.rule = 9 THEN {<<w>> : w \in HhmmWords}
    ELSE {<<w>> : w \in DecodeWords}

NoRaw == [ok |-> FALSE, raw |-> 0, err |-> "none"]

\* The time handler computes the word it writes for the time of day asked
\* for; the register then holds that word.
EncodeTime ==
    /\ dec.stage = "time"
    /\ StartTime(dec.item, dec.arg).pc = "write"
    /\ dec' = [dec EXCEPT !.stage = "input",
                          !.regs = <<StartTime(dec.item, dec.arg).value_to_write>>]
    /\ UNCHANGED <<pollVars, writeVars, spn, ld>>

\* val = _decode_item(item, regs)
Decode ==
    /\ dec.stage = "input"
    /\ dec' = [dec EXCEPT !.stage = "decoded", !.value = _decode_item(dec.item, dec.regs)]
    /\ UNCHANGED <<pollVars, writeVars, spn, ld>>

\* raw = self._to_raw(value) on the decoded value of a number.
ToRaw ==
    /\ dec.stage = "decoded"
    /\ dec.item.platform = "number"
    /\ IsNumber(dec.value)
    /\ dec' = [dec EXCEPT !.stage = "converted",
                          !.raw = _to_raw(dec.item, dec.value.a, dec.value.b)]
    /\ UNCHANGED <<pollVars, writeVars, spn, ld>>

InitDecode ==
    /\ def_items = <<>>
    /\ now = 0
    /\ last_ts = 0
    /\ last_full_read = 0
    /\ meta = [last_success |-> NoSuccess, last_error |-> ""]
    /\ registered = FALSE
    /\ coordData = EmptyData
    /\ poll = NoPoll
    /\ device = [a \in {} |-> 0]
    /\ wr = [w \in AllWriters |-> IdleWriter]
    /\ written = {}
    /\ \/ \E item \in DecodeItems : \E regs \in RegsFor(item) :
            dec = [stage |-> "input", item |-> item, arg |-> NoArg, regs |-> regs,
                   value |-> NoneV, raw |-> NoRaw]
       \/ \E arg \in TimesOfDay :
            dec = [stage |-> "time", item |-> TimeProg, arg |-> arg, regs |-> <<>>,
                   value |-> NoneV, raw |-> NoRaw]
    /\ spn = NoCall
    /\ ld = NoCall

NextDecode ==
    \/ EncodeTime
    \/ Decode
    \/ ToRaw

\* The decoder applied to every item of DecodeItems and every word of its registers.
SpecDecode == InitDecode /\ [][NextDecode]_vars

(***************************************************************************)
(* The span builder as a function of its argument: a list of fields is     *)
(* chosen, _build_spans is applied to it, and applied again to the same    *)
(* fields in some other order.                                             *)
(***************************************************************************)

\* Start addresses run over 0..MaxAddr, lists have at most MaxFields fields.
MaxAddr == 2

MaxFields == 3

\* A field with the given register list; only the registers matter here.
SpanField(registers) == DefinitionItem("field", "sensor", registers, 1)

\* One register, two ascending registers, two registers two apart in
\* descending order (the range includes the address between them).
SpanFields ==
    {SpanField(<<a>>) : a \in 0..MaxAddr}
        \cup {SpanField(<<a, a + 1>>) : a \in 0..MaxAddr}
        \cup {SpanField(<<a + 2, a>>) : a \in 0..MaxAddr}

FieldLists == UNION {[1..n -> SpanFields] : n \in 0..MaxFields}

\* The list items in the order perm.
Reorder(items, perm) == [i \in 1..Len(items) |-> items[perm[i]]]

Build ==
    /\ spn.stage = "input"
    /\ spn' = [spn EXCEPT !.stage = "built", !.spans = _build_spans(spn.fields)]
    /\ UNCHANGED <<pollVars, writeVars, dec, ld>>

Rebuild ==
    /\ spn.stage = "built"
    /\ \E perm \in Permutations(1..Len(spn.fields)) :
          spn' = [spn EXCEPT !.stage = "rebuilt",
                             !.again = _build_spans(Reorder(spn.fields, perm))]
    /\ UNCHANGED <<pollVars, writeVars, dec, ld>>

InitSpans ==
    /\ def_items = <<>>
    /\ now = 0
    /\ last_ts = 0
    /\ last_full_read = 0
    /\ meta = [last_success |-> NoSuccess, last_error |-> ""]
    /\ registered = FALSE
    /\ coordData = EmptyData
    /\ poll = NoPoll
    /\ device = [a \in {} |-> 0]
    /\ wr = [w \in AllWriters |-> IdleWriter]
    /\ written = {}
    /\ dec = NoCall
    /\ \E fields \in FieldLists :
          spn = [stage |-> "input", fields |-> fields, spans |-> <<>>, again |-> <<>>]
    /\ ld = NoCall

NextSpans ==
    \/ Build
    \/ Rebuild

\* The span builder applied to every list of FieldLists, in every order.
SpecSpans == InitSpans /\ [][NextSpans]_vars

(***************************************************************************)
(* The definition loader, load_definition.  A name is a sequence of        *)
(* one-character strings; a document is the sequence of the entries of its *)
(* groups, in order.  The rule None is 0.                                  *)
(***************************************************************************)

\* str.lower() on the letters that occur in the modelled names.
Lower(c) ==
    CASE c = "A" -> "a"
      [] c = "B" -> "b"
      [] c = "M" -> "m"
      [] OTHER -> c

\* name.lower().replace(" ", "_").replace("-", "_").replace("/", "_").replace("&", "and")
RECURSIVE _slug(_)
_slug(name) ==
    IF name = <<>> THEN <<>>
    ELSE LET c == Lower(name[1])
         IN  (CASE c \in {" ", "-", "/"} -> <<"_">>
                [] c = "&" -> <<"a", "n", "d">>
                [] OTHER -> <<c>>) \o _slug(Tail(name))

\* str.strip(): the spaces at both ends are removed.
RECURSIVE StripLeft(_)
StripLeft(name) ==
    IF name # <<>> /\ name[1] = " " THEN StripLeft(Tail(name)) ELSE name

RECURSIVE StripRight(_)
StripRight(name) ==
    IF name # <<>> /\ name[Len(name)] = " "
    THEN StripRight(SubSeq(name, 1, Len(name) - 1)) ELSE name

Strip(name) == StripRight(StripLeft(name))

\* An entry of the document.
Entry(name, id, platform, rule, registers, attribute) ==
    [name |-> name, id |-> id, platform |-> platform, rule |-> rule,
     registers |-> registers, attribute |-> attribute]

\* The keys of _ITEM_OVERRIDES.
MeterKey == <<"m", "e", "t", "e", "r">>

\* The descriptor appended for an entry.
LoadedItem(key, name, platform, registers, rule) ==
    [key |-> key, name |-> name, platform |-> platform, registers |-> registers,
     rule |-> rule]

\* The body of the loop for one entry: the list items with the descriptor of
\* the entry appended, or items itself where the body ends with "continue".
LoadEntry(items, item) ==
    LET name == Strip(IF item.name # <<>> THEN item.name ELSE item.id)
        key  == _slug(name)
        platform == IF key = MeterKey THEN "select" ELSE item.platform
    IN  IF item.attribute THEN items
        ELSE IF item.rule \notin {0, 1, 2, 8, 9} THEN items
        ELSE IF item.platform \notin {"sensor", "number", "switch", "select",
                                      "binary_sensor", "datetime", "time"} THEN items
        ELSE IF item.registers = <<>> THEN items
        ELSE IF name = <<>> THEN items
        ELSE Append(items, LoadedItem(key, name, platform, item.registers, item.rule))

RECURSIVE LoadEntries(_, _)
LoadEntries(entries, items) ==
    IF entries = <<>> THEN items
    ELSE LoadEntries(Tail(entries), LoadEntry(items, entries[1]))

load_definition(entries) == LoadEntries(entries, <<>>)

\* A document has at most MaxEntries entries.
MaxEntries == 3

\* The entries documents are made of: names with the same slug ("A b",
\* "a-b", "a/b " and the id "a b"), a name with "&", the overridden name
\* "Meter", and one entry for each reason to skip an entry.
DocEntries ==
    {Entry(<<"A", " ", "b">>, <<>>, "sensor", 1, <<1>>, FALSE),
     Entry(<<"a", "-", "b">>, <<>>, "number", 1, <<2>>, FALSE),
     Entry(<<"a", "/", "b", " ">>, <<>>, "sensor", 2, <<3>>, FALSE),
     Entry(<<>>, <<"a", " ", "b">>, "time", 9, <<4>>, FALSE),
     Entry(<<"a", "&", "b">>, <<>>, "sensor", 0, <<5, 6>>, FALSE),
     Entry(<<"M", "e", "t", "e", "r">>, <<>>, "sensor", 1, <<7>>, FALSE),
     Entry(<<"A", " ", "b">>, <<>>, "sensor", 1, <<1>>, TRUE),
     Entry(<<"B">>, <<>>, "sensor", 4, <<8, 9>>, FALSE),
     Entry(<<"B">>, <<>>, "sensor", 5, <<8, 9>>, FALSE),
     Entry(<<"B">>, <<>>, "sensor", 3, <<8>>, FALSE),
     Entry(<<"B">>, <<>>, "button", 1, <<8>>, FALSE),
     Entry(<<"B">>, <<>>, "sensor", 1, <<>>, FALSE),
     Entry(<<" ">>, <<"B">>, "sensor", 1, <<8>>, FALSE)}

Documents == UNION {[1..n -> DocEntries] : n \in 0..MaxEntries}

Load ==
    /\ ld.stage = "input"
    /\ ld' = [ld EXCEPT !.stage = "loaded", !.items = load_definition(ld.doc)]
    /\ UNCHANGED <<pollVars, writeVars, dec, spn>>

InitLoad ==
    /\ def_items = <<>>
    /\ now = 0
    /\ last_ts = 0
    /\ last_full_read = 0
    /\ meta = [last_success |-> NoSuccess, last_error |-> ""]
    /\ registered = FALSE
    /\ coordData = EmptyData
    /\ poll = NoPoll
    /\ device = [a \in {} |-> 0]
    /\ wr = [w \in AllWriters |-> IdleWriter]
    /\ written = {}
    /\ dec = NoCall
    /\ spn = NoCall
    /\ \E doc \in Documents : ld = [stage |-> "input", doc |-> doc, items |-> <<>>]

NextLoad == Load

\* The loader applied to every document of Documents.
SpecLoad == InitLoad /\ [][NextLoad]_vars

(***************************************************************************)
(* Properties of the decoder, over the record dec of one call.             *)
(***************************************************************************)

\* An unsigned16 number with a scalar scale and nothing else in its pipeline.
C11_Field(item) ==
    /\ item.platform = "number"
    /\ item.rule \in {0, 1}
    /\ item.scale.kind \in {"int", "float"}
    /\ ~item.hasMask /\ item.offset = 0 /\ item.divide = 0
    /\ item.lookup = NoLookup
    /\ item.key \notin ScaleOverrideKeys1 \cup ScaleOverrideKeys10 \cup ScaleOverrideKeys100

\* The number v = a/b lies in the declared range of the item.
C11_InRange(item, v) ==
    /\ item.hasMin => v.a >= item.range_min * v.b
    /\ item.hasMax => v.a <= item.range_max * v.b

\* C11 -- Scale round-trip: for an unsigned16 number with a scalar scale and
\* no mask, offset, divide, lookup or override, and a raw word whose decoded
\* value lies in the declared range, _to_raw of the decoded value is the raw
\* word again.
C11_ScaleRoundTrip ==
    (dec.stage = "converted" /\ C11_Field(dec.item) /\ C11_InRange(dec.item, dec.value)) =>
        /\ dec.raw.ok
        /\ dec.raw.raw = dec.regs[1]

\* Scale 0.1: the word 105 decodes to 10.5 and 10.5 converts to 105.
C11_Witness ==
    /\ dec.stage = "converted"
    /\ dec.item.scale = FloatScale(1, 10)
    /\ dec.regs = <<105>>
    /\ dec.value.t = "float" /\ dec.value.a = 21 /\ dec.value.b = 2
    /\ dec.raw.ok /\ dec.raw.raw = 105

\* The byte b as two BCD digits, NoInt when a nibble is no digit.
C12_Bcd(b) ==
    IF (b \div 16) % 16 < 10 /\ (b % 16) < 10 THEN ((b \div 16) % 16) * 10 + (b % 16) ELSE NoInt

\* The six bytes of the fixed layout: year, month, day, hour, minute, second.
C12_Bytes(regs) ==
    << (regs[1] \div 256) % 256, regs[1] % 256,
       (regs[2] \div 256) % 256, regs[2] % 256,
       (regs[3] \div 256) % 256, regs[3] % 256 >>

\* The last day of a month.
C12_LastDay(year, month) ==
    IF month \in {4, 6, 9, 11} THEN 30
    ELSE IF month # 2 THEN 31
    ELSE IF (year % 4 = 0 /\ year % 100 # 0) \/ year % 400 = 0 THEN 29 ELSE 28

\* C12 as the spec states it -- BCD date-time decode: when the six bytes of
\* the fixed layout are the BCD encodings of a valid YY, MM, DD, HH, mm, SS,
\* decode returns 20YY-MM-DD HH:mm (BCD 24 12 31 23 59 gives 2024-12-31 23:59).
C12_BcdReading ==
    LET b  == C12_Bytes(dec.regs)
        yy == C12_Bcd(b[1])
        mo == C12_Bcd(b[2])
        dd == C12_Bcd(b[3])
        hh == C12_Bcd(b[4])
        mi == C12_Bcd(b[5])
        ss == C12_Bcd(b[6])
    IN  (/\ dec.stage = "decoded" /\ dec.item.platform = "datetime" /\ dec.item.rule = 8
         /\ yy \in 0..99 /\ mo \in 1..12 /\ dd >= 1 /\ dd <= C12_LastDay(2000 + yy, mo)
         /\ hh \in 0..23 /\ mi \in 0..59 /\ ss \in 0..59) =>
            /\ dec.value.t = "datetime"
            /\ dec.value.year = 2000 + yy /\ dec.value.month = mo /\ dec.value.day = dd
            /\ dec.value.hour = hh /\ dec.value.minute = mi

\* The byte b read as the code reads a component with the range lo..hi: its
\* binary value when that is in the range, else its BCD value when that is.
C12_Reading(b, lo, hi) ==
    IF lo <= b /\ b <= hi THEN b
    ELSE IF C12_Bcd(b) # NoInt /\ lo <= C12_Bcd(b) /\ C12_Bcd(b) <= hi THEN C12_Bcd(b)
    ELSE NoInt

\* C12 amended -- fixed-layout decode: when the year byte is at most 99 and
\* each other byte is a binary value in its component's range or, its binary
\* value being out of that range, the BCD encoding of a value in the range,
\* and the day exists in the month, decode returns the date-time of the year
\* 2000 + year byte (read as binary) and of those readings, binary first.
C12_FixedLayoutDecode ==
    LET b  == C12_Bytes(dec.regs)
        mo == C12_Reading(b[2], 1, 12)
        dd == C12_Reading(b[3], 1, 31)
        hh == C12_Reading(b[4], 0, 23)
        mi == C12_Reading(b[5], 0, 59)
        ss == C12_Reading(b[6], 0, 59)
    IN  (/\ dec.stage = "decoded" /\ dec.item.platform = "datetime" /\ dec.item.rule = 8
         /\ b[1] <= 99 /\ mo # NoInt /\ dd # NoInt /\ hh # NoInt /\ mi # NoInt /\ ss # NoInt
         /\ dd <= C12_LastDay(2000 + b[1], mo)) =>
            /\ dec.value.t = "datetime"
            /\ dec.value.year = 2000 + b[1] /\ dec.value.month = mo /\ dec.value.day = dd
            /\ dec.value.hour = hh /\ dec.value.minute = mi /\ dec.value.second = ss

\* The BCD bytes 0x24 0x12, 0x31 0x23, 0x59 0x00 decode to 2036-12-31 23:59:
\* the year byte 0x24 is 36 in binary.
C12_Witness ==
    /\ dec.stage = "decoded"
    /\ dec.regs = <<Word(36, 18), Word(49, 35), Word(89, 0)>>
    /\ dec.value.t = "datetime"
    /\ dec.value.year = 2036 /\ dec.value.month = 12 /\ dec.value.day = 31
    /\ dec.value.hour = 23 /\ dec.value.minute = 59

\* C13 -- Date-time decode fails closed: for every register triple the
\* decode of a date-time item is nothing, or a date-time with the year in
\* 1970..2100, a month, a day that exists in that month, an hour and a
\* minute; a year byte 0xFF whose register is no plausible year with the
\* bytes swapped either gives nothing.
C13_DateTimeFailsClosed ==
    (dec.stage = "decoded" /\ dec.item.platform = "datetime" /\ dec.item.rule = 8) =>
        /\ \/ dec.value.t = "none"
           \/ /\ dec.value.t = "datetime"
              /\ dec.value.year \in 1970..2100
              /\ dec.value.month \in 1..12
              /\ dec.value.day >= 1
              /\ dec.value.day <= C12_LastDay(dec.value.year, dec.value.month)
              /\ dec.value.hour \in 0..23
              /\ dec.value.minute \in 0..59
        /\ (/\ (dec.regs[1] \div 256) % 256 = 255
            /\ ((dec.regs[1] % 256) * 256 + 255) \notin 1970..2100) =>
                dec.value.t = "none"

\* The year byte is 0xFF, the other bytes are a valid date and time: nothing.
C13_Witness ==
    /\ dec.stage = "decoded"
    /\ dec.regs = <<Word(255, 12), Word(31, 23), Word(59, 0)>>
    /\ dec.value.t = "none"

\* The assignment idx_orders[k] of the registers to the roles validates fully.
C17_OrderValid(regs, k) ==
    LET c == OrderComponents(regs, idx_orders[k])
    IN  /\ \A i \in 1..5 : c[i] # NoInt
        /\ MakeDateTime(c[1], c[2], c[3], c[4], c[5], 0).t = "datetime"

\* C17 -- Permutation stage of the date-time decoder: when the fixed layout
\* does not validate and some assignment of the registers to the year /
\* month-day / hour-minute roles validates fully, decode returns the
\* date-time of the first such assignment in the order of idx_orders.
C17_PermutationStage ==
    (/\ dec.stage = "decoded" /\ dec.item.platform = "datetime" /\ dec.item.rule = 8
     /\ SolarmanLayout(dec.regs).t = "none") =>
        \A k \in 1..Len(idx_orders) :
            (C17_OrderValid(dec.regs, k) /\ \A j \in 1..(k - 1) : ~C17_OrderValid(dec.regs, j)) =>
                LET c == OrderComponents(dec.regs, idx_orders[k])
                IN  dec.value = DateTimeV(c[1], c[2], c[3], c[4], c[5], 0)

\* The factor of the override table for a key.
C18_Factor(key) ==
    IF key \in ScaleOverrideKeys100 THEN 100
    ELSE IF key \in ScaleOverrideKeys10 THEN 10
    ELSE 1

\* The word r as a two's-complement 16-bit number.
C19_Signed(r) == IF r >= 32768 THEN r - 65536 ELSE r

\* C18 -- Scale override takes precedence: for a field whose key is in the
\* override table the decoded value is the rule's integer value multiplied
\* by the override factor only, whatever the rule (signed16 included) and
\* whatever the scale of the definition.
C18_OverrideOnly ==
    (/\ dec.stage = "decoded"
     /\ dec.item.key \in ScaleOverrideKeys1 \cup ScaleOverrideKeys10 \cup ScaleOverrideKeys100
     /\ dec.item.rule \in {1, 2}
     /\ ~dec.item.hasMask /\ dec.item.offset = 0 /\ dec.item.divide = 0) =>
        LET int_value == IF dec.item.rule = 2 THEN C19_Signed(dec.regs[1]) ELSE dec.regs[1]
        IN  /\ dec.value.t \in {"int", "float"}
            /\ dec.value.a = int_value * C18_Factor(dec.item.key) * dec.value.b

\* C19 -- Signed16 decode: for a signed16 field with no offset, mask, divide,
\* lookup or override, decode returns the two's-complement value of the word
\* multiplied by the scale exactly once (the scalar, or numerator/denominator
\* of a ratio), and the signed value itself when there is no scale.
C19_SignedScaledOnce ==
    (/\ dec.stage = "decoded" /\ dec.item.rule = 2
     /\ dec.item.key \notin ScaleOverrideKeys1 \cup ScaleOverrideKeys10 \cup ScaleOverrideKeys100
     /\ ~dec.item.hasMask /\ dec.item.offset = 0 /\ dec.item.divide = 0
     /\ dec.item.lookup = NoLookup) =>
        LET num == IF dec.item.scale.kind = "none" THEN 1 ELSE dec.item.scale.num
            den == IF dec.item.scale.kind = "none" THEN 1 ELSE dec.item.scale.den
        IN  /\ dec.value.t \in {"int", "float"}
            /\ dec.value.a * den = C19_Signed(dec.regs[1]) * num * dec.value.b

C14_FieldRange(field) ==
    LET regs == {field.registers[i] : i \in 1..Len(field.registers)}
        lo   == CHOOSE x \in regs : \A y \in regs : x <= y
        hi   == CHOOSE x \in regs : \A y \in regs : x >= y
    IN  lo..hi

\* The addresses a span <<start, count>> reads.
C14_SpanRange(span) == span[1]..(span[1] + span[2] - 1)

\* C14 -- Span partition: the spans are sorted by strictly increasing start,
\* pairwise non-overlapping and non-adjacent, none is empty, the union of
\* their addresses is exactly the union of the fields' ranges
\* min(registers)..max(registers), every field's range lies inside exactly
\* one span, and an empty field list gives an empty span list.
C14_SpanPartition ==
    (spn.stage \in {"built", "rebuilt"}) =>
        LET s == spn.spans
            f == spn.fields
        IN  /\ \A i \in 1..Len(s) : s[i][2] >= 1
            /\ \A i \in 1..(Len(s) - 1) : s[i][1] + s[i][2] < s[i + 1][1]
            /\ UNION {C14_SpanRange(s[i]) : i \in 1..Len(s)}
                  = UNION {C14_FieldRange(f[j]) : j \in 1..Len(f)}
            /\ \A j \in 1..Len(f) :
                  Cardinality({i \in 1..Len(s) :
                                 C14_FieldRange(f[j]) \subseteq C14_SpanRange(s[i])}) = 1
            /\ (f = <<>>) => (s = <<>>)

\* Three fields, the first two overlapping with the wider one first, the
\* third behind a gap: two spans.
C14_Witness ==
    /\ spn.stage = "built"
    /\ Len(spn.fields) = 3
    /\ spn.fields[1].registers = <<2, 0>>
    /\ spn.fields[2].registers = <<1>>
    /\ spn.fields[3].registers = <<4, 2>>
    /\ spn.spans = << <<0, 5>> >>

\* C15 -- Span determinism: _build_spans applied to any permutation of the
\* field list, the identity included, returns the same span list, also when
\* several fields share a start address.
C15_SpanDeterminism ==
    (spn.stage = "rebuilt") => spn.again = spn.spans

\* Three fields share the start address 0 and end at different addresses,
\* the widest first; the list was built again with the same result.
C15_Witness ==
    /\ spn.stage = "rebuilt"
    /\ Len(spn.fields) = 3
    /\ spn.fields[1].registers = <<2, 0>>
    /\ spn.fields[2].registers = <<0>>
    /\ spn.fields[3].registers = <<0, 1>>
    /\ spn.again = << <<0, 3>> >>

(***************************************************************************)
(* Properties of the loader, over the record ld of one call.               *)
(***************************************************************************)

\* C16 -- Key uniqueness: the list of descriptors the loader returns holds
\* no two descriptors with the same key, also when two entries of the
\* document have names with the same slug.
C16_KeyUniqueness ==
    (ld.stage = "loaded") =>
        \A i \in 1..Len(ld.items) : \A j \in 1..Len(ld.items) :
            (i # j) => ld.items[i].key # ld.items[j].key

\* Whether the loader would keep the entry but for its rule: no attribute, a
\* supported category, a register list and a name.
C27_Eligible(e) ==
    /\ ~e.attribute
    /\ e.platform \in {"sensor", "number", "switch", "select", "binary_sensor",
                       "datetime", "time"}
    /\ e.registers # <<>>
    /\ Strip(IF e.name # <<>> THEN e.name ELSE e.id) # <<>>

\* Whether the loaded descriptors hold one made from the entry.
C27_Kept(items, e) ==
    \E j \in 1..Len(items) :
        /\ items[j].name = Strip(IF e.name # <<>> THEN e.name ELSE e.id)
        /\ items[j].registers = e.registers
        /\ items[j].rule = e.rule

\* C27 -- Loader and decoder agree on the rule set: an entry of a supported
\* category with registers and a name is among the loaded descriptors exactly
\* when its rule is one the decoder implements, so an unsigned32-high-low or
\* packed-ascii-string entry is loaded.
C27_LoaderDecoderAgree ==
    (ld.stage = "loaded") =>
        \A i \in 1..Len(ld.doc) :
            C27_Eligible(ld.doc[i]) =>
                (C27_Kept(ld.items, ld.doc[i]) <=> ld.doc[i].rule \in DecoderRules)

\* The half of C27 the loader meets: every loaded descriptor has a rule the
\* decoder implements, and an entry with such a rule other than 4, 5 and 7
\* is loaded.
C27_LoadedRulesImplemented ==
    (ld.stage = "loaded") =>
        /\ \A j \in 1..Len(ld.items) : ld.items[j].rule \in DecoderRules
        /\ \A i \in 1..Len(ld.doc) :
              (C27_Eligible(ld.doc[i]) /\ ld.doc[i].rule \in DecoderRules \ {4, 5, 7}) =>
                  C27_Kept(ld.items, ld.doc[i])

\* A document with an unsigned32-high-low entry and an unsigned16 entry was
\* loaded: the descriptors hold the second and not the first.
C27_Witness ==
    /\ ld.stage = "loaded"
    /\ \E i \in 1..Len(ld.doc) :
          /\ C27_Eligible(ld.doc[i]) /\ ld.doc[i].rule = 4
          /\ ~C27_Kept(ld.items, ld.doc[i])
    /\ \E i \in 1..Len(ld.doc) :
          /\ ld.doc[i].rule = 1 /\ C27_Kept(ld.items, ld.doc[i])

(***************************************************************************)
(* Properties of the poll cycle, over the record poll of the last cycle.   *)
(***************************************************************************)

\* C1 -- Merge on partial failure: when the cycle decoded at least one field,
\* the snapshot it returns has the keys of prev and of the decoded fields,
\* every decoded key with its new value and every other key of prev with its
\* prev value (so a merge equal to prev returns prev).
C1_MergeOnPartialFailure ==
    (poll.result # "none" /\ DOMAIN poll.data # {}) =>
        /\ poll.result = "returned"
        /\ DOMAIN coordData = DOMAIN poll.prev \cup DOMAIN poll.data
        /\ \A k \in DOMAIN poll.data : coordData[k] = poll.data[k]
        /\ \A k \in DOMAIN poll.prev \ DOMAIN poll.data : coordData[k] = poll.prev[k]

\* A cycle that decoded some fields only: one key of prev is kept as it was,
\* another is overwritten with a different value.
C1_Witness ==
    /\ poll.result = "returned"
    /\ DOMAIN poll.data # {}
    /\ \E k \in DOMAIN poll.prev \ DOMAIN poll.data : coordData[k] = poll.prev[k]
    /\ \E k \in DOMAIN poll.prev \cap DOMAIN poll.data : poll.data[k] # poll.prev[k]

\* C2 -- Total-failure fallback: a cycle with prev empty that decoded nothing
\* (no span read, or no field decoded) raises the update failure instead of
\* returning a snapshot.
C2_TotalFailureRaises ==
    (poll.result # "none" /\ DOMAIN poll.prev = {} /\ DOMAIN poll.data = {}) =>
        poll.result = "raised"

\* C3 -- Transient outage keeps state: a cycle with prev non-empty that read
\* no register, or read some and decoded no field, returns prev unchanged and
\* raises nothing.
C3_TransientOutageKeepsState ==
    (poll.result # "none" /\ DOMAIN poll.prev # {} /\ DOMAIN poll.data = {}) =>
        /\ poll.result = "returned"
        /\ coordData = poll.prev

\* A cycle after a good one in which every span read failed.
C3_Witness ==
    /\ poll.result = "returned"
    /\ DOMAIN poll.prev # {}
    /\ DOMAIN poll.data = {}
    /\ poll.spans # <<>>
    /\ \A i \in 1..Len(poll.outcomes) : poll.outcomes[i].kind # "ok"
    /\ \E i \in 1..Len(poll.outcomes) : poll.outcomes[i].kind = "raise"

\* The spans of the last cycle that answered with words and cover address a.
C4_OkSpans(a) ==
    {i \in 1..Len(poll.spans) :
        /\ poll.outcomes[i].kind = "ok"
        /\ a >= poll.spans[i][1]
        /\ a < poll.spans[i][1] + poll.spans[i][2]}

\* The word the last cycle read at address a (a is covered by an ok span).
C4_WordAt(a) ==
    LET i == CHOOSE i \in C4_OkSpans(a) : TRUE
    IN  poll.outcomes[i].words[a - poll.spans[i][1] + 1]

\* C4 -- A failing span does not abort the cycle: the cycle requests every
\* span of the chosen set once, in order, whatever the earlier answers were,
\* and every item whose registers all lie in spans that answered is decoded
\* from the words those spans returned.
C4_FailingSpanDoesNotAbort ==
    poll.result # "none" =>
        /\ poll.log = poll.spans
        /\ \A i \in 1..Len(def_items) :
              LET it == def_items[i]
              IN  (/\ it.registers # <<>>
                   /\ \A j \in 1..Len(it.registers) : C4_OkSpans(it.registers[j]) # {}) =>
                      LET raw == [j \in 1..Len(it.registers) |-> C4_WordAt(it.registers[j])]
                          val == _decode_item(it, raw)
                      IN  val.t # "none" =>
                             /\ it.key \in DOMAIN poll.data
                             /\ poll.data[it.key] = val

\* A cycle whose first span read raised and in which a later span answered
\* and was decoded.
C4_Witness ==
    /\ poll.result = "returned"
    /\ Len(poll.spans) >= 2
    /\ poll.outcomes[1].kind = "raise"
    /\ \E i \in 2..Len(poll.spans) : poll.outcomes[i].kind = "ok"
    /\ DOMAIN poll.data # {}
    /\ Len(poll.log) = Len(poll.spans)

\* Address a was returned by a span read of the last cycle.
C21_Read(a) ==
    \E i \in 1..Len(poll.spans) :
        /\ poll.outcomes[i].kind = "ok"
        /\ a \in poll.spans[i][1]..(poll.spans[i][1] + poll.spans[i][2] - 1)

\* Every register of the item was returned by a span read of the last cycle.
C21_Complete(item) == \A j \in 1..Len(item.registers) : C21_Read(item.registers[j])

\* C21 -- Incomplete fields are omitted: every key of the cycle's partial
\* result belongs to a field whose registers were all returned by span reads
\* of this cycle and carries a value; a field with an address missing, or
\* whose decode of the words read is nothing, contributes no key; and a
\* field read completely whose decode is a value is in the result whatever
\* happened to the other fields.
C21_IncompleteFieldsOmitted ==
    poll.result # "none" =>
        /\ \A k \in DOMAIN poll.data :
              /\ poll.data[k].t # "none"
              /\ \E i \in 1..Len(def_items) :
                    def_items[i].key = k /\ C21_Complete(def_items[i])
        /\ \A i \in 1..Len(def_items) :
              LET it == def_items[i]
              IN  IF ~C21_Complete(it) THEN it.key \notin DOMAIN poll.data
                  ELSE LET val == _decode_item(it, [j \in 1..Len(it.registers) |->
                                                       C4_WordAt(it.registers[j])])
                       IN  (val.t = "none") <=> (it.key \notin DOMAIN poll.data)

\* A fast cycle that read the first of the two registers of a time field:
\* the field of that one register is decoded, the time field is absent.
C21_Witness ==
    /\ poll.result = "returned"
    /\ ~poll.full
    /\ \E i \in 1..Len(def_items) :
          /\ Len(def_items[i].registers) = 2
          /\ C21_Read(def_items[i].registers[1])
          /\ ~C21_Read(def_items[i].registers[2])
          /\ def_items[i].key \notin DOMAIN poll.data
    /\ DOMAIN poll.data # {}

\* C22 -- Full/fast cadence: a cycle reads the full span set when its start
\* is SLOW_POLL_INTERVAL or more after the start recorded by the last full
\* cycle and the fast span set otherwise; a full cycle records its own start
\* whatever its reads return, a fast cycle leaves the record alone.
C22_FullFastCadence ==
    [][/\ poll'.full = (now' - last_full_read >= SLOW_POLL_INTERVAL)
       /\ poll'.read_ts = now'
       /\ poll'.full => (last_full_read' = now' /\ poll'.spans = _build_spans(def_items))
       /\ ~poll'.full => (last_full_read' = last_full_read /\ poll'.spans = FastSpans(def_items))
      ]_vars

\* A full cycle, a threshold after the start of the clock, all of whose reads
\* failed: the timer is the start of this cycle.
C22_Witness ==
    /\ poll.result # "none"
    /\ poll.full
    /\ poll.read_ts >= SLOW_POLL_INTERVAL
    /\ last_full_read = poll.read_ts
    /\ \A i \in 1..Len(poll.outcomes) : poll.outcomes[i].kind # "ok"

\* C23 -- Outcome metadata is recorded every cycle: a cycle that decodes a
\* field sets last_success to its time and clears last_error; a cycle that
\* decodes none (no span read, or no field decoded) leaves an error text in
\* last_error, with or without a previous snapshot, and does not set
\* last_success.
C23_OutcomeMetadata ==
    poll.result # "none" =>
        /\ (DOMAIN poll.data # {}) =>
              (meta.last_success = poll.read_ts /\ meta.last_error = "")
        /\ (DOMAIN poll.data = {}) =>
              (meta.last_error # "" /\ meta.last_success # poll.read_ts)

\* C28 -- Snapshot keys never disappear: a cycle returns a snapshot with
\* every key the snapshot had before, and the value of such a key differs
\* from before only when the cycle decoded that field.
C28_KeysNeverDisappear ==
    [][/\ DOMAIN coordData \subseteq DOMAIN coordData'
       /\ \A k \in DOMAIN coordData :
             (coordData'[k] # coordData[k]) => (k \in DOMAIN poll'.data)
      ]_vars

\* A published value whose field's span failed in the last cycle while
\* another field was decoded and changed.
C28_Witness ==
    /\ poll.result = "returned"
    /\ \E i \in 1..Len(def_items) :
          /\ ~C21_Complete(def_items[i])
          /\ def_items[i].key \in DOMAIN coordData
          /\ def_items[i].key \in DOMAIN poll.prev
          /\ coordData[def_items[i].key] = poll.prev[def_items[i].key]
    /\ \E k \in DOMAIN poll.data : k \in DOMAIN poll.prev /\ coordData[k] # poll.prev[k]
    /\ \A i \in 1..Len(poll.outcomes) : poll.outcomes[i].kind # "raise"

\* Whether a byte is an hour, minute or second up to upper, read as plain
\* binary or as two BCD digits.
C25_Valid(byte, upper) ==
    \/ byte <= upper
    \/ /\ byte \div 16 < 10 /\ byte % 16 < 10
       /\ (byte \div 16) * 10 + (byte % 16) <= upper

\* The number a valid byte stands for: the byte itself when it is in range,
\* its BCD reading otherwise.
C25_Number(byte, upper) ==
    IF byte <= upper THEN byte ELSE (byte \div 16) * 10 + (byte % 16)

\* The hour and minute of the first register: the primary order when it
\* validates, the swapped order when only that validates, <<>> otherwise.
C25_HourMinute(reg) ==
    LET hi == reg \div 256
        lo == reg % 256
    IN  IF C25_Valid(hi, 23) /\ C25_Valid(lo, 59)
        THEN <<C25_Number(hi, 23), C25_Number(lo, 59)>>
        ELSE IF C25_Valid(lo, 23) /\ C25_Valid(hi, 59)
        THEN <<C25_Number(lo, 23), C25_Number(hi, 59)>>
        ELSE <<>>

\* C25 -- bcd-time decode as stated: a bcd-time field of one or two registers
\* decodes to a time whenever the two bytes of its first register validate as
\* hour and minute in the primary or, failing that, the swapped order, and
\* is omitted only when they validate in neither order.
C25_BcdTimeWhenHourMinuteValid ==
    (dec.stage = "decoded" /\ dec.item.rule = 8 /\ dec.item.platform = "time") =>
        (dec.value.t = "time" <=> C25_HourMinute(dec.regs[1]) # <<>>)

\* C25, amended -- a bcd-time field decodes to a time exactly when the two
\* bytes of its first register validate as hour and minute in the primary
\* or, failing that, the swapped order, and the low byte of the second
\* register, when there is one, validates as a second (0..59, binary or
\* BCD); the time is that hour, minute and second (second 0 without a second
\* register); otherwise the field is omitted.
C25_BcdTimeDecode ==
    (dec.stage = "decoded" /\ dec.item.rule = 8 /\ dec.item.platform = "time") =>
        LET hm     == C25_HourMinute(dec.regs[1])
            two    == Len(dec.regs) > 1
            sec_ok == two => C25_Valid(dec.regs[2] % 256, 59)
            sec    == IF two THEN C25_Number(dec.regs[2] % 256, 59) ELSE 0
        IN  IF hm # <<>> /\ sec_ok
            THEN dec.value = TimeV(hm[1], hm[2], sec)
            ELSE dec.value = NoneV

\* The first register 0x31 0x23 validates only in the swapped order (hour
\* 0x23, minute 49) and the second register's low byte 0x59 is a BCD second:
\* the time 23:49:59.
C25_Witness ==
    /\ dec.stage = "decoded" /\ dec.item = BcdTimeSec
    /\ dec.regs = <<Word(49, 35), Word(35, 89)>>
    /\ dec.value = TimeV(23, 49, 59)

\* C26 -- hhmm-packed time: a raw word r decodes to the time
\* (r div 100):(r mod 100):00 when r div 100 <= 23 and r mod 100 <= 59 and to
\* nothing otherwise; the time handler writes hour*100 + minute for a time of
\* day, and that word decodes to the same time with seconds 0.
C26_HhmmPacked ==
    (dec.item.rule = 9 /\ dec.stage # "time") =>
        LET r == dec.regs[1]
        IN  /\ dec.stage = "decoded" =>
                  dec.value = IF r \div 100 <= 23 /\ r % 100 <= 59
                              THEN TimeV(r \div 100, r % 100, 0)
                              ELSE NoneV
            /\ dec.arg # NoArg =>
                  /\ dec.regs = <<dec.arg.n * 100 + dec.arg.d>>
                  /\ dec.stage = "decoded" => dec.value = TimeV(dec.arg.n, dec.arg.d, 0)

\* 23:59 was written as the word 2359 and read back as 23:59:00.
C26_Witness ==
    /\ dec.stage = "decoded" /\ dec.item.rule = 9
    /\ dec.arg = TimeArg(23, 59)
    /\ dec.regs = <<2359>>
    /\ dec.value = TimeV(23, 59, 0)

(***************************************************************************)
(* Properties of the write handlers, over the call log of each request.    *)
(***************************************************************************)

\* Bit b of the word x.
Bit(x, b) == (x \div 2^b) % 2

\* The positions of the calls of kind op in a request's log.
CallsOf(rec, op) == {i \in 1..Len(rec.calls) : rec.calls[i].op = op}

\* C5 -- Masked write preserves unmasked bits: a select write to a field with
\* a non-zero mask whose read of the current word returned c issues exactly
\* one write_register, right after that read and to the same address, and
\* every bit of the word written is the bit of the option's raw value where
\* the mask is set and the bit of c elsewhere.
C5_MaskedWritePreservesBits ==
    \A w \in AllWriters :
        LET r == wr[w]
        IN  (/\ r.item.platform = "select" /\ r.item.hasMask /\ r.item.mask # 0
             /\ r.pc \in {"verify", "done"}
             /\ Len(r.calls) >= 1
             /\ r.calls[1].res = "ok") =>
                /\ r.calls[1].op = "read"
                /\ r.calls[1].addr = r.item.registers[1]
                /\ CallsOf(r, "write") = {2}
                /\ r.calls[2].addr = r.item.registers[1]
                /\ r.calls[2].value \in 0..(2^WordBits - 1)
                /\ \A b \in 0..(WordBits - 1) :
                      Bit(r.calls[2].value, b) =
                          IF Bit(r.item.mask, b) = 1
                          THEN Bit(ReverseKey(r.item.lookup, r.arg.s), b)
                          ELSE Bit(r.calls[1].word, b)

\* The register holds 0b11110000, the mask is 0b00001111 and the option's raw
\* value is 3: the word written is 0b11110011.
C5_Witness ==
    \E w \in AllWriters :
        /\ wr[w].item.hasMask /\ wr[w].item.mask = 15
        /\ wr[w].arg.s = "Enabled" /\ wr[w].value = 3
        /\ Len(wr[w].calls) >= 2
        /\ wr[w].calls[1].op = "read" /\ wr[w].calls[1].word = 240
        /\ wr[w].calls[2].op = "write" /\ wr[w].calls[2].value = 243

\* C6 -- Read-after-write comparison: when the read-back that follows a write
\* returns a word, a masked select fails with the verification error exactly
\* when the word read and the word written differ in a bit of the mask, and
\* an unmasked number or select exactly when the two words differ.
C6_ReadBackComparison ==
    \A w \in AllWriters :
        LET r == wr[w]
        IN  \A i \in 1..(Len(r.calls) - 1) :
                (/\ r.calls[i].op = "write"
                 /\ r.calls[i + 1].op = "read"
                 /\ r.calls[i + 1].res = "ok") =>
                    LET wv == r.calls[i].value
                        rv == r.calls[i + 1].word
                        differs ==
                            IF r.item.platform = "select" /\ r.item.hasMask /\ r.item.mask # 0
                            THEN \E b \in 0..(WordBits - 1) :
                                     Bit(r.item.mask, b) = 1 /\ Bit(rv, b) # Bit(wv, b)
                            ELSE rv # wv
                    IN  /\ r.pc = "done"
                        /\ differs => r.result = "verify_failed"
                        /\ ~differs => r.result = "ok"

\* A masked select whose read-back differs from the word written in bits
\* outside the mask only: the request succeeds.
C6_Witness ==
    \E w \in AllWriters :
        /\ wr[w].pc = "done" /\ wr[w].result = "ok"
        /\ wr[w].item.hasMask /\ wr[w].item.mask # 0
        /\ Len(wr[w].calls) >= 3
        /\ wr[w].calls[2].op = "write"
        /\ wr[w].calls[3].op = "read" /\ wr[w].calls[3].res = "ok"
        /\ wr[w].calls[3].word # wr[w].calls[2].value

\* The request asks for something the field does not accept: a number below
\* range_min or above range_max, or whose value divided by the scale rounds
\* (halves to even) to a raw value outside 0..65535; an option that is no
\* label of the lookup.  The scales of the modelled numbers are positive.
C7_Invalid(item, arg) ==
    \/ /\ arg.kind = "number"
       /\ \/ item.hasMin /\ arg.n < item.range_min * arg.d
          \/ item.hasMax /\ arg.n > item.range_max * arg.d
          \/ /\ item.scale.kind \in {"int", "float"}
             /\ item.scale.num > 0
             /\ LET qn == arg.n * (IF item.scale.kind = "float" THEN item.scale.den ELSE 1)
                    qd == arg.d * item.scale.num
                IN  2 * qn < -qd \/ 2 * qn >= (2 * (2^WordBits) - 1) * qd
    \/ /\ arg.kind = "option"
       /\ \A k \in DOMAIN item.lookup : item.lookup[k] # arg.s

\* C7 -- Validation precedes transport: a number write with a value out of
\* range (or a raw value out of 0..65535) and a select write with an unknown
\* option end in an error with no transport call and no refresh request.
C7_ValidationPrecedesTransport ==
    \A w \in AllWriters :
        LET r == wr[w]
        IN  (r.pc # "idle" /\ C7_Invalid(r.item, r.arg)) =>
                /\ r.pc = "done"
                /\ r.result \notin {"ok", "none"}
                /\ r.calls = <<>>

\* An allowlisted number without a range whose raw value does not fit a word.
C7_Witness ==
    \E w \in AllWriters :
        /\ wr[w].pc = "done" /\ wr[w].result = "raw_range"
        /\ wr[w].item.key \in _WRITABLE_NUMBER_KEYS
        /\ wr[w].calls = <<>>

\* The write allowlist of a platform.
C8_Allowlist(platform) ==
    CASE platform = "number" -> _WRITABLE_NUMBER_KEYS
      [] platform = "select" -> _WRITABLE_SELECT_KEYS
      [] platform = "time"   -> _WRITABLE_TIME_KEYS
      [] OTHER -> {}

\* C8 -- Write allowlist: a request for a field outside the allowlist of its
\* platform ends at once in the writes-not-supported error with no transport
\* call and no refresh request, and write_register is never called for the
\* register of such a field.
C8_WriteAllowlist ==
    /\ \A w \in AllWriters :
          LET r == wr[w]
          IN  (r.pc # "idle" /\ r.item.key \notin C8_Allowlist(r.item.platform)) =>
                  /\ r.pc = "done"
                  /\ r.result = "not_supported"
                  /\ r.calls = <<>>
    /\ \A i \in 1..Len(def_items) :
          def_items[i].key \notin C8_Allowlist(def_items[i].platform) =>
              \A j \in 1..Len(def_items[i].registers) :
                  def_items[i].registers[j] \notin written

\* A time outside the allowlist has been refused after other fields were written.
C8_Witness ==
    \E w \in AllWriters :
        /\ wr[w].pc = "done" /\ wr[w].result = "not_supported"
        /\ wr[w].item.platform = "time"
        /\ wr[w].calls = <<>>
        /\ written # {}

\* C9 -- Refresh only on success: a request in progress has asked for no
\* refresh; a finished request has asked for exactly one, as its last call
\* and after a write_register that returned, exactly when it succeeded; a
\* request whose write_register raised or whose read-back did not match ends
\* in an error without a refresh.
C9_RefreshOnlyOnSuccess ==
    \A w \in AllWriters :
        LET r == wr[w]
        IN  /\ r.pc # "done" => CallsOf(r, "refresh") = {}
            /\ r.pc = "done" =>
                  /\ r.result = "ok" =>
                        /\ CallsOf(r, "refresh") = {Len(r.calls)}
                        /\ \E i \in CallsOf(r, "write") : r.calls[i].res = "ok"
                  /\ r.result # "ok" => CallsOf(r, "refresh") = {}
                  /\ (\E i \in CallsOf(r, "write") : r.calls[i].res = "raise") =>
                        r.result # "ok"
                  /\ (\E i \in 1..(Len(r.calls) - 1) :
                          /\ r.item.platform = "number"
                          /\ r.calls[i].op = "write"
                          /\ r.calls[i + 1].op = "read" /\ r.calls[i + 1].res = "ok"
                          /\ r.calls[i + 1].word # r.calls[i].value) =>
                        r.result # "ok"

\* A request whose write_register raised: it ended in an error, no refresh.
C9_Witness ==
    \E w \in AllWriters :
        /\ wr[w].pc = "done" /\ wr[w].result = "write_failed"
        /\ \E i \in CallsOf(wr[w], "write") : wr[w].calls[i].res = "raise"
        /\ CallsOf(wr[w], "refresh") = {}

\* C10 -- A failing verification read does not fail the write: a request
\* whose write_register returned and whose read-back gave an error result or
\* raised succeeds and asks for the refresh; a request whose write_register
\* returned fails only on a read-back word that differs from the word written.
C10_FailedReadBackKeepsWrite ==
    \A w \in AllWriters :
        LET r == wr[w]
        IN  r.pc = "done" =>
              /\ \A i \in 1..(Len(r.calls) - 1) :
                    (/\ r.calls[i].op = "write" /\ r.calls[i].res = "ok"
                     /\ r.calls[i + 1].op = "read"
                     /\ r.calls[i + 1].res \in {"error", "raise"}) =>
                        /\ r.result = "ok"
                        /\ r.calls[Len(r.calls)].op = "refresh"
              /\ ((\E i \in CallsOf(r, "write") : r.calls[i].res = "ok") /\ r.result # "ok") =>
                    \E i \in 1..(Len(r.calls) - 1) :
                        /\ r.calls[i].op = "write"
                        /\ r.calls[i + 1].op = "read" /\ r.calls[i + 1].res = "ok"
                        /\ r.calls[i + 1].word # r.calls[i].value

\* A number and a select whose read-back raised, resp. gave an error result,
\* after the write: the request succeeded.
C10_Witness ==
    \E w \in AllWriters :
        /\ wr[w].pc = "done" /\ wr[w].result = "ok"
        /\ wr[w].item.platform \in {"number", "select"}
        /\ \E i \in 2..Len(wr[w].calls) :
              /\ wr[w].calls[i - 1].op = "write"
              /\ wr[w].calls[i].op = "read"
              /\ wr[w].calls[i].res = "raise"

\* C30 -- Failed pre-read leaves the device untouched: a masked select write
\* waits for the read of the current word with no call made and the device
\* as it was; when that read gives an error result or raises, the request
\* ends there in an error with the read as its only call (no write_register,
\* no read-back, no refresh), and the register keeps its word; only a read
\* that gives a word lets the request go on to write_register.
C30_FailedPreReadLeavesDevice ==
    [][\A w \in AllWriters :
          LET r == wr[w]
              n == wr'[w]
          IN  /\ (r.pc = "idle" /\ n.pc = "preread") =>
                    /\ IsMasked(n.item) /\ n.calls = <<>>
                    /\ device' = device
              /\ (r.pc = "preread" /\ n # r) =>
                    /\ Len(n.calls) = 1 /\ n.calls[1].op = "read"
                    /\ n.calls[1].addr = r.address
                    /\ device' = device
                    /\ n.calls[1].res # "ok" =>
                          /\ n.pc = "done" /\ n.result \notin {"ok", "none"}
                          /\ CallsOf(n, "write") = {} /\ CallsOf(n, "refresh") = {}
                    /\ n.calls[1].res = "ok" => n.pc = "write"]_vars

\* A masked select write whose read of the current word raised: the request
\* has ended in an error after that one call and register 12 holds the word
\* it held before any write.
C30_Witness ==
    \E w \in AllWriters :
        /\ wr[w].pc = "done" /\ wr[w].result = "write_failed"
        /\ IsMasked(wr[w].item)
        /\ Len(wr[w].calls) = 1
        /\ wr[w].calls[1].op = "read" /\ wr[w].calls[1].res = "raise"
        /\ written = {}
        /\ device[wr[w].address] = InitialWord(wr[w].address)

\* C24 -- Every write is verified: a request of any writable category that
\* succeeded made its calls in the order [read of the current word, masked
\* fields only], write_register, read-back of the same address, refresh.
C24_EveryWriteVerified ==
    \A w \in AllWriters :
        LET r == wr[w]
            k == IF IsMasked(r.item) THEN 1 ELSE 0
        IN  (r.pc = "done" /\ r.result = "ok") =>
              /\ Len(r.calls) = k + 3
              /\ k = 1 => (r.calls[1].op = "read" /\ r.calls[1].addr = r.address)
              /\ r.calls[k + 1].op = "write" /\ r.calls[k + 1].addr = r.address
              /\ r.calls[k + 2].op = "read" /\ r.calls[k + 2].addr = r.address
              /\ r.calls[k + 3].op = "refresh"

\* The part of C24 the number and select handlers meet: their successful
\* requests read the register back between the write and the refresh.
C24_NumberSelectVerified ==
    \A w \in AllWriters :
        LET r == wr[w]
            k == IF IsMasked(r.item) THEN 1 ELSE 0
        IN  (r.pc = "done" /\ r.result = "ok" /\ r.item.platform \in {"number", "select"}) =>
              /\ Len(r.calls) = k + 3
              /\ k = 1 => (r.calls[1].op = "read" /\ r.calls[1].addr = r.address)
              /\ r.calls[k + 1].op = "write" /\ r.calls[k + 1].addr = r.address
              /\ r.calls[k + 2].op = "read" /\ r.calls[k + 2].addr = r.address
              /\ r.calls[k + 3].op = "refresh"

\* A time write that succeeded: write_register and the refresh, no read-back.
C24_Witness ==
    \E w \in AllWriters :
        /\ wr[w].pc = "done" /\ wr[w].result = "ok"
        /\ wr[w].item.platform = "time"
        /\ Len(wr[w].calls) = 2
        /\ wr[w].calls[1].op = "write" /\ wr[w].calls[2].op = "refresh"

\* A finished masked select write that succeeded after a read-back that gave
\* a word (so the word matched in the bits of its mask).
C29_Verified(r) ==
    /\ r.pc = "done" /\ r.result = "ok" /\ IsMasked(r.item)
    /\ Len(r.calls) = 4
    /\ r.calls[3].op = "read" /\ r.calls[3].res = "ok"

\* C29 -- No lost update on masked writes: once two masked select writes to
\* the same register with disjoint masks have both reported success, the
\* register holds the new bits of both fields, however their transport
\* calls interleaved.
C29_NoLostUpdate ==
    \A w1 \in AllWriters : \A w2 \in AllWriters :
        (/\ w1 # w2
         /\ C29_Verified(wr[w1]) /\ C29_Verified(wr[w2])
         /\ wr[w1].address = wr[w2].address
         /\ BitAnd(wr[w1].item.mask, wr[w2].item.mask) = 0) =>
            /\ BitAnd(device[wr[w1].address], wr[w1].item.mask)
                  = BitAnd(wr[w1].value, wr[w1].item.mask)
            /\ BitAnd(device[wr[w2].address], wr[w2].item.mask)
                  = BitAnd(wr[w2].value, wr[w2].item.mask)

\* Both writes read the current word before either wrote: both succeeded
\* and the register has lost the bits of one of them.
C29_Witness ==
    \E w1 \in AllWriters : \E w2 \in AllWriters :
        /\ w1 # w2
        /\ C29_Verified(wr[w1]) /\ C29_Verified(wr[w2])
        /\ wr[w1].item = SelCharging /\ wr[w2].item = SelCharging2
        /\ wr[w1].calls[1].word = wr[w2].calls[1].word
        /\ BitAnd(device[12], 15) # BitAnd(wr[w1].value, 15)
        /\ BitAnd(device[12], 32) = BitAnd(wr[w2].value, 32)

=============================================================================
